---------------------------- MODULE Spec2Model ----------------------------
(***************************************************************************)
(* Anti-Keylogger: the change-detecting hook monitor (src/src/monitor.py), *)
(* the heuristic engine it calls (src/src/heuristics.py) and the platform  *)
(* probe's hook discovery (src/src/enumerator.py).                         *)
(*                                                                         *)
(* Python objects are modelled with their sharing: a RiskAssessment holds  *)
(* references to the engine's RiskRule objects, so an assessment's         *)
(* triggered_rules is a sequence of rule keys and the rules' mutable       *)
(* fields (triggered, evidence) live in the variable `rules`.              *)
(***************************************************************************)
EXTENDS Integers, Sequences, FiniteSets, TLC

\* Number of scan cycles (_perform_scan calls) a behaviour may contain.
MaxScans == 2

\* Longest hook list a snapshot() call is given by the probe.
MaxSnapshotHooks == 1

\* Number of start() calls a behaviour may contain.
MaxStarts == 2

\* Number of scan cycles of a monitor session in which the probe may raise.
MaxScanErrors == 2

\* Direct calls of an analysis function (analyze_process, classify_risk) a
\* behaviour may contain.
MaxAnalyses == 1

\* Largest score handed to classify_risk.
MaxScore == 100

\* Number of analyze_process calls made on one engine.
MaxEngineCalls == 3

VARIABLES
    known_hooks,      \* HookMonitor.known_hooks: hook_id -> HookInfo
    known_processes,  \* HookMonitor.known_processes: pid -> ProcessInfo
    events,           \* HookMonitor.events: the event log
    on_event_callbacks, \* HookMonitor.on_event_callbacks, in registration order
    rules,            \* HeuristicEngine.rules: key -> the rule's mutable fields
    calls,            \* every callback invocation so far: <<callback index, event index>>
    ui,               \* error and warning messages handed to the UI, by kind
    scans,            \* number of _perform_scan calls so far
    last,             \* record of the last _perform_scan call (for stating the claims)
    enum_pids,        \* WindowsAPIEnumerator: pids EnumProcesses returned last (in order)
    enum_hooks,       \* WindowsAPIEnumerator: the result of the last detect_hooks()
    enum_prev,        \* WindowsAPIEnumerator: the result of the detect_hooks() before it
    is_running,       \* HookMonitor.is_running
    stop_requested,   \* HookMonitor._stop_requested
    monitor_thread,   \* HookMonitor._monitor_thread: {} for None, else {the activation it runs}
    loops,            \* every _monitor_loop activation: where it is, and whether it is a thread
    starts,           \* number of start() calls so far
    stop_pc,          \* where the stop() call in progress is ("idle": none in progress)
    loop_hist,        \* per activation: what happened to it (for stating the claims)
    core_call,        \* ProductionKeyloggerDetector.analyze_process: the last call's inputs
    core_result,      \* ... and what that call computed and returned
    eng_call,         \* HeuristicEngine.analyze_process: the last direct call's inputs
    eng_result,       \* ... and the assessment it returned
    classified,       \* classify_risk: the last call's score and result
    analyses,         \* number of direct analysis calls made so far
    eng_log,          \* the calls made on one engine, each with what it returned
    probe_fact,       \* the last get_process_info call on a probe, with its result
    admin_call,       \* the last AdminActions call: inputs, return value, target before it
    target            \* the process and the executable file the admin actions are aimed at

vars == <<known_hooks, known_processes, events, on_event_callbacks, rules,
          calls, ui, scans, last, enum_pids, enum_hooks, enum_prev,
          is_running, stop_requested, monitor_thread, loops, starts, stop_pc,
          loop_hist, core_call, core_result, eng_call, eng_result, classified,
          analyses, eng_log, probe_fact, admin_call, target>>

monitor_vars == <<known_hooks, known_processes, events, on_event_callbacks, rules,
                  calls, ui, scans, last>>

enum_vars == <<enum_pids, enum_hooks, enum_prev>>

thread_vars == <<is_running, stop_requested, monitor_thread, loops, starts, stop_pc,
                 loop_hist>>

\* The records of the calls made directly to the analysis functions.
call_vars == <<core_call, core_result, eng_call, eng_result, classified, analyses,
               eng_log, probe_fact, admin_call, target>>

\* Python's None.
None == [none |-> TRUE]

-----------------------------------------------------------------------------
(* Generic helpers *)

RECURSIVE SortedSeq(_)
\* The elements of a finite set of integers in ascending order: the order in
\* which CPython iterates a set of small non-negative integers.
SortedSeq(S) ==
    IF S = {} THEN <<>>
    ELSE LET m == CHOOSE x \in S : \A y \in S : x <= y
         IN <<m>> \o SortedSeq(S \ {m})

Range(s) == {s[i] : i \in DOMAIN s}

\* str.lower() on the strings of the modelled population.
Lower(s) ==
    CASE s = "C:" -> "c:"
      [] s = "Windows" -> "windows"
      [] s = "System32" -> "system32"
      [] s = "Temp" -> "temp"
      [] s = "Users" -> "users"
      [] s = "User" -> "user"
      [] s = "System" -> "system"
      [] s = "Program Files" -> "program files"
      [] s = "Google" -> "google"
      [] s = "Chrome" -> "chrome"
      [] s = "Application" -> "application"
      [] s = "AppData" -> "appdata"
      [] s = "Local" -> "local"
      [] s = "U" -> "u"
      [] s = "HP" -> "hp"
      [] s = "Acme" -> "acme"
      [] s = "Tools" -> "tools"
      [] s = "HPHelper.exe" -> "hphelper.exe"
      [] s = "Acme Ltd" -> "acme ltd"
      [] s = "HP Inc." -> "hp inc."
      [] s = "Y" -> "y"
      [] s = "YES" -> "yes"
      [] s = "NETWORK" -> "network"
      [] s = "MEMORY.exe" -> "memory.exe"
      [] OTHER -> s

\* A path is the sequence of its backslash-separated components:
\* C:\Temp\badproc.exe is <<"C:", "Temp", "badproc.exe">>.
LowerPath(p) == [i \in DOMAIN p |-> Lower(p[i])]

\* "\\<d>\\" in path: d is a component with one before and one after it.
HasDir(p, d) == \E i \in 2..(Len(p) - 1) : p[i] = d

\* ":\\<d>\\" in path: d directly follows a drive component.
HasRootDir(p, d) == Len(p) >= 3 /\ p[1] \in {"c:"} /\ p[2] = d


\* "\\<e1>\\<e2>...": the components e follow each other in p, after a backslash.
\* (The last one is matched as a whole component: no component of the modelled
\* population merely starts with another.)
ContainsSeq(p, e) ==
    \E i \in 2..(Len(p) - Len(e) + 1) : \A j \in 1..Len(e) : p[i + j - 1] = e[j]

-----------------------------------------------------------------------------
(* Fact model: enumerator.py ProcessInfo and HookInfo.  user_account and     *)
(* timestamp are read by nothing modelled here and are left out.             *)

ProcessInfo(pid, name, path, parent_pid, is_signed, hidden, is_service, dlls, privileges) ==
    [pid |-> pid, name |-> name, path |-> path, parent_pid |-> parent_pid,
     is_signed |-> is_signed, is_hidden_window |-> hidden,
     is_service |-> is_service, loaded_dlls |-> dlls,
     privileges |-> privileges]

HookInfo(hook_id, hook_type, owner_pid, owner_process, module_path) ==
    [hook_id |-> hook_id, hook_type |-> hook_type, owner_pid |-> owner_pid,
     owner_process |-> owner_process, module_path |-> module_path]

\* The population the probe is observed to report: the mock probe's badproc.exe
\* and explorer.exe, and the same processes after a change of path, of signature
\* status or of loaded modules.
BadProc ==
    ProcessInfo(4120, "badproc.exe", <<"C:", "Temp", "badproc.exe">>, 2248,
                FALSE, TRUE, FALSE, <<"user32.dll", "suspicious.dll">>,
                <<"ELEVATED">>)

BadProcMoved == [BadProc EXCEPT !.path = <<"C:", "Users", "User", "badproc.exe">>]

BadProcSigned == [BadProc EXCEPT !.is_signed = TRUE]

Explorer ==
    ProcessInfo(2248, "explorer.exe", <<"C:", "Windows", "explorer.exe">>, 1234,
                TRUE, FALSE, FALSE, <<"user32.dll", "shell32.dll">>, <<"NORMAL">>)

ExplorerHooked == [Explorer EXCEPT !.loaded_dlls = <<"user32.dll", "shell32.dll", "keyhook.dll">>]

Pids == {4120, 2248}

\* What get_process_info(pid) may return in a cycle: a fact, or None when the
\* process cannot be opened.
ProcAnswers(pid) ==
    IF pid = 4120 THEN {None, BadProc, BadProcMoved, BadProcSigned}
    ELSE {Explorer, ExplorerHooked}

\* The hook registrations a probe may report.  Process 4120 owns two of them.
HookUniverse ==
    {HookInfo(1, "WH_KEYBOARD_LL", 4120, "badproc.exe", <<"C:", "Temp", "badproc.exe">>),
     HookInfo(2, "WH_KEYBOARD", 4120, "badproc.exe", <<"C:", "Temp", "badproc.exe">>),
     HookInfo(3, "WH_KEYBOARD_LL", 2248, "explorer.exe", <<"C:", "Windows", "explorer.exe">>)}

HookIds == {h.hook_id : h \in HookUniverse}

HookById(id) == CHOOSE h \in HookUniverse : h.hook_id = id

\* A detect_hooks() result: a list of hooks with distinct ids, in id order.
HookLists == {[i \in 1..Cardinality(S) |-> HookById(SortedSeq(S)[i])] : S \in SUBSET HookIds}

Owners(hooks) == {hooks[i].owner_pid : i \in DOMAIN hooks}

-----------------------------------------------------------------------------
(* Heuristic engine: heuristics.py *)

\* The rule keys in the order analyze_process applies the checks (which is
\* also the order of the rules dictionary).
RuleOrder ==
    <<"unsigned_binary", "hidden_window", "unusual_path", "elevated_privileges",
      "suspicious_dll", "orphan_process", "temp_location", "name_spoofing",
      "service_anomaly", "multiple_hooks">>

RuleKeys == Range(RuleOrder)

RuleId(key) ==
    CASE key = "unsigned_binary" -> "R001"
      [] key = "hidden_window" -> "R002"
      [] key = "unusual_path" -> "R003"
      [] key = "elevated_privileges" -> "R004"
      [] key = "suspicious_dll" -> "R005"
      [] key = "orphan_process" -> "R006"
      [] key = "temp_location" -> "R007"
      [] key = "name_spoofing" -> "R008"
      [] key = "service_anomaly" -> "R009"
      [] key = "multiple_hooks" -> "R010"

BaseWeight(key) ==
    CASE key = "unsigned_binary" -> 25
      [] key = "hidden_window" -> 20
      [] key = "unusual_path" -> 30
      [] key = "elevated_privileges" -> 15
      [] key = "suspicious_dll" -> 25
      [] key = "orphan_process" -> 10
      [] key = "temp_location" -> 20
      [] key = "name_spoofing" -> 35
      [] key = "service_anomaly" -> 15
      [] key = "multiple_hooks" -> 20

\* The factors of "high" and "low" exchanged.
Weight_Inverted(sensitivity, key) ==
    CASE sensitivity = "high" -> (BaseWeight(key) * 7) \div 10
      [] sensitivity = "low" -> (BaseWeight(key) * 13) \div 10
      [] OTHER -> BaseWeight(key)

\* Every engine scales as the low-sensitivity one does.
Weight_AlwaysLow(sensitivity, key) == (BaseWeight(key) * 7) \div 10

\* HeuristicEngine.__init__: int(weight * 1.3), int(weight * 0.7), or the weight.
Weight(sensitivity, key) ==
    CASE sensitivity = "high" -> (BaseWeight(key) * 13) \div 10
      [] sensitivity = "low" -> (BaseWeight(key) * 7) \div 10
      [] OTHER -> BaseWeight(key)

\* The monitor's engine: HookMonitor.__init__ passes its sensitivity, "medium"
\* by default and in main.py.
MonitorSensitivity == "medium"

\* The mutable fields of the rule objects after _initialize_rules.
InitRules == [k \in RuleKeys |-> [triggered |-> FALSE, evidence |-> <<>>]]

\* A module name contains one of suspicious_dll_patterns ("hook", "inject",
\* "keylog", "capture", "spy", "monitor", "intercept", "suspicious").
IsSuspiciousDll(dll) == Lower(dll) \in {"suspicious.dll", "keyhook.dll"}

\* system_procs of _check_name_spoofing: name -> expected path fragment.
SystemProcPath(name) ==
    CASE name = "system" -> <<"windows", "system32", "ntoskrnl.exe">>
      [] name = "svchost.exe" -> <<"windows", "system32", "svchost.exe">>
      [] name = "explorer.exe" -> <<"windows", "explorer.exe">>
      [] name = "lsass.exe" -> <<"windows", "system32", "lsass.exe">>
      [] name = "csrss.exe" -> <<"windows", "system32", "csrss.exe">>
      [] name = "winlogon.exe" -> <<"windows", "system32", "winlogon.exe">>
      [] OTHER -> <<>>

\* Whether the check of rule `key` fires for `proc` (the if-conditions of the
\* ten _check_* methods).
RuleFires(key, proc, hook_count) ==
    LET path == LowerPath(proc.path)
        name == Lower(proc.name)
    IN CASE key = "unsigned_binary" -> ~proc.is_signed
         [] key = "hidden_window" -> proc.is_hidden_window /\ ~proc.is_service
         [] key = "unusual_path" ->
                /\ ~(HasDir(path, "windows")
                     \/ \E i \in 2..Len(path) : path[i] \in {"program files", "program files (x86)"})
                /\ \/ HasRootDir(path, "users")
                   \/ HasRootDir(path, "temp")
                   \/ HasRootDir(path, "downloads")
                   \/ (Len(path) >= 4 /\ path[1] = "c:" /\ path[2] = "appdata" /\ path[3] = "roaming")
         [] key = "elevated_privileges" ->
                /\ "ELEVATED" \in Range(proc.privileges)
                /\ ~proc.is_service
                /\ name \notin {"taskmgr.exe", "regedit.exe", "cmd.exe", "powershell.exe"}
         [] key = "suspicious_dll" ->
                \E i \in DOMAIN proc.loaded_dlls : IsSuspiciousDll(proc.loaded_dlls[i])
         [] key = "orphan_process" ->
                proc.parent_pid > 0 /\ proc.parent_pid < 4 /\ proc.pid > 100
         [] key = "temp_location" ->
                \/ HasDir(path, "temp")
                \/ HasDir(path, "tmp")
                \/ ContainsSeq(path, <<"appdata", "local", "temp">>)
         [] key = "name_spoofing" ->
                /\ SystemProcPath(name) # <<>>
                /\ ~ContainsSeq(path, SystemProcPath(name))
         [] key = "service_anomaly" -> proc.is_service /\ ~proc.is_signed
         [] key = "multiple_hooks" -> hook_count > 2

\* The evidence text a firing check writes into its rule object: the fixed
\* wording (by rule) and the values it formats into it.
RuleEvidence(key, proc, hook_count) ==
    CASE key = "unsigned_binary" -> <<"No valid signature found for", proc.path>>
      [] key = "hidden_window" -> <<"Process runs without visible windows">>
      [] key = "unusual_path" -> <<"Executing from", proc.path>>
      [] key = "elevated_privileges" -> <<"Process has elevated privileges:", proc.privileges>>
      [] key = "suspicious_dll" ->
             <<"Loaded suspicious DLL:",
               proc.loaded_dlls[CHOOSE i \in DOMAIN proc.loaded_dlls :
                   /\ IsSuspiciousDll(proc.loaded_dlls[i])
                   /\ \A j \in 1..(i - 1) : ~IsSuspiciousDll(proc.loaded_dlls[j])]>>
      [] key = "orphan_process" -> <<"Parent PID likely terminated", proc.parent_pid>>
      [] key = "temp_location" -> <<"Running from temp:", proc.path>>
      [] key = "name_spoofing" -> <<"running from unexpected path:", proc.name, proc.path>>
      [] key = "service_anomaly" -> <<"Unsigned service:", proc.name>>
      [] key = "multiple_hooks" -> <<"Process registered hooks", hook_count>>

\* The thresholds one lower: 60 is HIGH, 30 is MEDIUM.
LevelOf_Shifted(score) ==
    IF score >= 60 THEN "HIGH" ELSE IF score >= 30 THEN "MEDIUM" ELSE "LOW"

\* Score -> level, as in analyze_process.
LevelOf(score) ==
    IF score >= 61 THEN "HIGH" ELSE IF score >= 31 THEN "MEDIUM" ELSE "LOW"

RECURSIVE SumWeights(_, _)
SumWeights(sensitivity, keys) ==
    IF keys = <<>> THEN 0
    ELSE Weight(sensitivity, Head(keys)) + SumWeights(sensitivity, Tail(keys))

\* analyze_process: resets every rule object, lets each firing check mark its
\* rule and append it (the object itself) to `triggered`, and returns the
\* assessment.  The result is [assessment, rules]: the assessment and the
\* engine's rule objects after the call.
AnalyzeProcess(sensitivity, proc, hook_count) ==
    LET fired == SelectSeq(RuleOrder, LAMBDA k : RuleFires(k, proc, hook_count))
        score == SumWeights(sensitivity, fired)
    IN [assessment |->
            [pid |-> proc.pid, process_name |-> proc.name, risk_score |-> score,
             risk_level |-> LevelOf(score), triggered_rules |-> fired],
        rules |->
            [k \in RuleKeys |->
                IF RuleFires(k, proc, hook_count)
                THEN [triggered |-> TRUE, evidence |-> RuleEvidence(k, proc, hook_count)]
                ELSE [triggered |-> FALSE, evidence |-> <<>>]]]

\* analyze_hook: the hook count passed on is always 1.
AnalyzeHook(sensitivity, hook, proc) == AnalyzeProcess(sensitivity, proc, 1)

-----------------------------------------------------------------------------
(* Monitor: monitor.py *)

MonitorEvent(event_type, hook_info, process_info, risk_assessment) ==
    [event_type |-> event_type, hook_info |-> hook_info,
     process_info |-> process_info, risk_assessment |-> risk_assessment]

\* The subscribers that may register a callback: s1 raises an Exception when
\* called, s2 records the event and returns.
Subscribers == {"s1", "s2"}

Raises(callback) == callback = "s1"

UiKinds == {"callback_error", "scan_error", "no_access_warning", "already_running_warning"}

\* dict[key] = value
Put(d, key, value) == [k \in DOMAIN d \cup {key} |-> IF k = key THEN value ELSE d[k]]

\* dict.get(key)
Get(d, key) == IF key \in DOMAIN d THEN d[key] ELSE None

\* The part of the monitor's state a handler reads and writes.
MonitorState ==
    [events |-> events, known_processes |-> known_processes, rules |-> rules,
     calls |-> calls, ui |-> ui]

RECURSIVE TriggerCallbacks_Stop(_, _, _)
\* TriggerCallbacks without the try/except: the first callback that raises ends
\* the loop (the failure is still reported once).
TriggerCallbacks_Stop(m, callbacks, i) ==
    IF i > Len(callbacks) THEN m
    ELSE LET called == [m EXCEPT !.calls = Append(@, <<i, Len(m.events)>>)]
         IN IF Raises(callbacks[i])
            THEN [called EXCEPT !.ui["callback_error"] = @ + 1]
            ELSE TriggerCallbacks_Stop(called, callbacks, i + 1)

RECURSIVE TriggerCallbacks(_, _, _)
\* "for callback in self.on_event_callbacks: try: callback(event) except
\* Exception: print_error": the callbacks from position i on are called with the
\* event just appended; one that raises is reported and the loop goes on.
TriggerCallbacks(m, callbacks, i) ==
    IF i > Len(callbacks) THEN m
    ELSE LET called == [m EXCEPT !.calls = Append(@, <<i, Len(m.events)>>)]
             after == IF Raises(callbacks[i])
                      THEN [called EXCEPT !.ui["callback_error"] = @ + 1]
                      ELSE called
         IN TriggerCallbacks(after, callbacks, i + 1)

\* _handle_new_hook without the early return: a hook whose owner cannot be read
\* is announced too, with no process fact and no assessment.
HandleNewHook_NoReturn(m, hook, answers, callbacks) ==
    LET proc_info == answers[hook.owner_pid]
    IN IF proc_info = None
       THEN TriggerCallbacks(
                [m EXCEPT !.ui["no_access_warning"] = @ + 1,
                          !.events = Append(@, MonitorEvent("hook_added", hook, None, None))],
                callbacks, 1)
       ELSE LET a == AnalyzeHook(MonitorSensitivity, hook, proc_info)
                event == MonitorEvent("hook_added", hook, proc_info, a.assessment)
                m1 == [m EXCEPT !.rules = a.rules,
                                !.events = Append(@, event),
                                !.known_processes = Put(@, hook.owner_pid, proc_info)]
            IN TriggerCallbacks(m1, callbacks, 1)

\* _handle_new_hook
HandleNewHook(m, hook, answers, callbacks) ==
    LET proc_info == answers[hook.owner_pid]
    IN IF proc_info = None
       THEN [m EXCEPT !.ui["no_access_warning"] = @ + 1]
       ELSE LET a == AnalyzeHook(MonitorSensitivity, hook, proc_info)
                event == MonitorEvent("hook_added", hook, proc_info, a.assessment)
                m1 == [m EXCEPT !.rules = a.rules,
                                !.events = Append(@, event),
                                !.known_processes = Put(@, hook.owner_pid, proc_info)]
            IN TriggerCallbacks(m1, callbacks, 1)

\* _handle_removed_hook
HandleRemovedHook(m, hook_id, known, callbacks) ==
    LET removed_hook == known[hook_id]
        event == MonitorEvent("hook_removed", removed_hook,
                              Get(m.known_processes, removed_hook.owner_pid), None)
        m1 == [m EXCEPT !.events = Append(@, event)]
    IN TriggerCallbacks(m1, callbacks, 1)

\* The test with the module lists compared as lists only: a module unloaded or
\* reordered counts as a change.
ProcessChanged_ListCompare(old_proc, new_proc) ==
    /\ old_proc # None
    /\ \/ old_proc.path # new_proc.path
       \/ old_proc.is_signed # new_proc.is_signed
       \/ old_proc.loaded_dlls # new_proc.loaded_dlls

\* The "significant changes" test of _check_process_changes.
ProcessChanged(old_proc, new_proc) ==
    /\ old_proc # None
    /\ \/ old_proc.path # new_proc.path
       \/ old_proc.is_signed # new_proc.is_signed
       \/ /\ old_proc.loaded_dlls # new_proc.loaded_dlls
          /\ Range(new_proc.loaded_dlls) \ Range(old_proc.loaded_dlls) # {}

\* _check_process_changes
CheckProcessChanges(m, hook, answers) ==
    LET old_proc == Get(m.known_processes, hook.owner_pid)
        new_proc == answers[hook.owner_pid]
    IN IF new_proc = None THEN m
       ELSE IF ~ProcessChanged(old_proc, new_proc) THEN m
       ELSE LET a == AnalyzeHook(MonitorSensitivity, hook, new_proc)
                event == MonitorEvent("process_changed", hook, new_proc, a.assessment)
            IN [m EXCEPT !.rules = a.rules,
                         !.events = Append(@, event),
                         !.known_processes = Put(@, hook.owner_pid, new_proc)]

\* Every reported hook taken as new.
NewHookIds_All(current_hook_ids, known_hook_ids) == current_hook_ids

\* new_hook_ids = current_hook_ids - known_hook_ids
NewHookIds(current_hook_ids, known_hook_ids) == current_hook_ids \ known_hook_ids

\* removed_hook_ids = known_hook_ids - current_hook_ids
RemovedHookIds(current_hook_ids, known_hook_ids) == known_hook_ids \ current_hook_ids

\* next(h for h in current_hooks if h.hook_id == hook_id)
FirstWithId(current_hooks, hook_id) ==
    current_hooks[CHOOSE i \in DOMAIN current_hooks :
        /\ current_hooks[i].hook_id = hook_id
        /\ \A j \in 1..(i - 1) : current_hooks[j].hook_id # hook_id]

RECURSIVE HandleNewHooks(_, _, _, _, _)
\* "for hook_id in new_hook_ids: ... self._handle_new_hook(hook)"
HandleNewHooks(m, ids, current_hooks, answers, callbacks) ==
    IF ids = <<>> THEN m
    ELSE HandleNewHooks(
             HandleNewHook(m, FirstWithId(current_hooks, Head(ids)), answers, callbacks),
             Tail(ids), current_hooks, answers, callbacks)

RECURSIVE HandleRemovedHooks(_, _, _, _)
\* "for hook_id in removed_hook_ids: self._handle_removed_hook(hook_id)"
HandleRemovedHooks(m, ids, known, callbacks) ==
    IF ids = <<>> THEN m
    ELSE HandleRemovedHooks(HandleRemovedHook(m, Head(ids), known, callbacks),
                            Tail(ids), known, callbacks)

RECURSIVE CheckExistingHooks(_, _, _, _)
\* "for hook in current_hooks: if hook.hook_id in self.known_hooks:
\*      self._check_process_changes(hook)"
CheckExistingHooks(m, hooks, known, answers) ==
    IF hooks = <<>> THEN m
    ELSE CheckExistingHooks(
             IF Head(hooks).hook_id \in DOMAIN known
             THEN CheckProcessChanges(m, Head(hooks), answers)
             ELSE m,
             Tail(hooks), known, answers)

\* The body of _perform_scan's try block up to the update of the known state:
\* new hooks first, then removed hooks, then the hooks already known.
ScanHandlers(m, current_hooks, known, answers, callbacks) ==
    LET current_hook_ids == {current_hooks[i].hook_id : i \in DOMAIN current_hooks}
        known_hook_ids == DOMAIN known
        m1 == HandleNewHooks(m, SortedSeq(NewHookIds(current_hook_ids, known_hook_ids)),
                             current_hooks, answers, callbacks)
        m2 == HandleRemovedHooks(m1, SortedSeq(RemovedHookIds(current_hook_ids, known_hook_ids)),
                                 known, callbacks)
    IN CheckExistingHooks(m2, current_hooks, known, answers)

\* The known hooks updated with the reported ones instead of replaced by them.
UpdatedKnownHooks_Merge(current_hooks, known) ==
    [id \in DOMAIN known \cup {current_hooks[i].hook_id : i \in DOMAIN current_hooks} |->
        IF \E i \in DOMAIN current_hooks : current_hooks[i].hook_id = id
        THEN current_hooks[CHOOSE i \in DOMAIN current_hooks : current_hooks[i].hook_id = id]
        ELSE known[id]]

\* self.known_hooks = {hook.hook_id: hook for hook in current_hooks}
UpdatedKnownHooks(current_hooks, known) ==
    [id \in {current_hooks[i].hook_id : i \in DOMAIN current_hooks} |->
        current_hooks[CHOOSE i \in DOMAIN current_hooks :
            /\ current_hooks[i].hook_id = id
            /\ \A j \in (i + 1)..Len(current_hooks) : current_hooks[j].hook_id # id]]


RECURSIVE SnapshotItems(_, _, _)
\* The loop of snapshot(): every hook whose owner can be read is analysed and
\* yields an item.  The result is [data, rules]: the items and the engine's rule
\* objects after the loop.
SnapshotItems(acc, hooks, answers) ==
    IF hooks = <<>> THEN acc
    ELSE LET hook == Head(hooks)
             proc_info == answers[hook.owner_pid]
         IN IF proc_info = None
            THEN SnapshotItems(acc, Tail(hooks), answers)
            ELSE LET a == AnalyzeHook(MonitorSensitivity, hook, proc_info)
                 IN SnapshotItems(
                        [data |-> Append(acc.data, [hook |-> hook, process |-> proc_info,
                                                    assessment |-> a.assessment]),
                         rules |-> a.rules],
                        Tail(hooks), answers)

\* An event log as a reader of the log sees it: every assessment with the
\* fields of the rule objects its triggered_rules list refers to.
LogContent(log, rule_objects) ==
    [i \in DOMAIN log |->
        IF log[i].risk_assessment = None THEN log[i]
        ELSE [log[i] EXCEPT !.risk_assessment.triggered_rules =
                 [j \in DOMAIN @ |->
                     [rule_id |-> RuleId(@[j]),
                      triggered |-> rule_objects[@[j]].triggered,
                      evidence |-> rule_objects[@[j]].evidence]]]]

EmptyDict == [k \in {} |-> None]

\* What the probe answers in one cycle for the owners of the hooks it reports.
AnswersFor(hooks) ==
    {a \in [Owners(hooks) -> UNION {ProcAnswers(p) : p \in Pids}] :
        \A p \in Owners(hooks) : a[p] \in ProcAnswers(p)}

\* The record kept of a _perform_scan call: the state it started from, what the
\* probe answered and whether the try block ran to its end.
Started(n, completed, current_hooks, answers) ==
    [n |-> n, completed |-> completed, current |-> current_hooks, answers |-> answers,
     known_hooks |-> known_hooks, known_processes |-> known_processes,
     n_events |-> Len(events), n_calls |-> Len(calls), ui |-> ui,
     callbacks |-> on_event_callbacks]

\* The _monitor_loop activations of a session, in the order start() creates them.
LoopIds == 1..MaxStarts

\* HookMonitor.__init__ (and HeuristicEngine.__init__ within it)
Init ==
    /\ known_hooks = EmptyDict
    /\ known_processes = EmptyDict
    /\ events = <<>>
    /\ on_event_callbacks = <<>>
    /\ rules = InitRules
    /\ calls = <<>>
    /\ ui = [k \in UiKinds |-> 0]
    /\ scans = 0
    /\ last = [n |-> 0, completed |-> FALSE, current |-> <<>>, answers |-> EmptyDict,
               known_hooks |-> EmptyDict, known_processes |-> EmptyDict,
               n_events |-> 0, n_calls |-> 0, ui |-> [k \in UiKinds |-> 0],
               callbacks |-> <<>>]
    /\ enum_pids = <<>>
    /\ enum_hooks = <<>>
    /\ enum_prev = <<>>
    /\ is_running = FALSE
    /\ stop_requested = FALSE
    /\ monitor_thread = {}
    /\ loops = [l \in LoopIds |-> [pc |-> "none", threaded |-> FALSE]]
    /\ starts = 0
    /\ stop_pc = "idle"
    /\ loop_hist = [l \in LoopIds |->
                       [stop_called |-> FALSE, begun_after_stop |-> 0,
                        failed_cycles |-> 0, rescanned |-> FALSE,
                        stop_returned |-> FALSE, ran_after_return |-> FALSE]]
    /\ core_call = None
    /\ analyses = 0
    /\ core_result = None
    /\ eng_call = None
    /\ eng_result = None
    /\ classified = None
    /\ eng_log = <<>>
    /\ probe_fact = None
    /\ admin_call = None
    /\ target = [process |-> "running", file |-> "in_place"]

\* add_event_callback(callback)
AddEventCallback(callback) ==
    /\ callback \notin Range(on_event_callbacks)
    /\ on_event_callbacks' = Append(on_event_callbacks, callback)
    /\ UNCHANGED <<known_hooks, known_processes, events, rules, calls, ui, scans, last>>
    /\ UNCHANGED enum_vars
    /\ UNCHANGED call_vars
    /\ UNCHANGED thread_vars

\* _perform_scan, detect_hooks() returning current_hooks and get_process_info(pid)
\* returning answers[pid] during the cycle.
PerformScan(current_hooks, answers) ==
    /\ scans < MaxScans
    /\ LET m == ScanHandlers(MonitorState, current_hooks, known_hooks, answers,
                             on_event_callbacks)
       IN /\ events' = m.events
          /\ known_processes' = m.known_processes
          /\ rules' = m.rules
          /\ calls' = m.calls
          /\ ui' = m.ui
    /\ known_hooks' = UpdatedKnownHooks(current_hooks, known_hooks)
    /\ scans' = scans + 1
    /\ last' = Started(scans + 1, TRUE, current_hooks, answers)
    /\ UNCHANGED on_event_callbacks
    /\ UNCHANGED enum_vars
    /\ UNCHANGED call_vars
    /\ UNCHANGED thread_vars

\* _perform_scan when detect_hooks() raises: the except clause reports the error.
PerformScanError ==
    /\ scans < MaxScans
    /\ ui' = [ui EXCEPT !["scan_error"] = @ + 1]
    /\ scans' = scans + 1
    /\ last' = Started(scans + 1, FALSE, <<>>, EmptyDict)
    /\ UNCHANGED <<known_hooks, known_processes, events, on_event_callbacks, rules, calls>>
    /\ UNCHANGED enum_vars
    /\ UNCHANGED call_vars
    /\ UNCHANGED thread_vars

\* snapshot()
Snapshot(hooks, answers) ==
    /\ rules' = SnapshotItems([data |-> <<>>, rules |-> rules], hooks, answers).rules
    /\ UNCHANGED <<known_hooks, known_processes, events, on_event_callbacks, calls, ui,
                   scans, last>>
    /\ UNCHANGED enum_vars
    /\ UNCHANGED call_vars
    /\ UNCHANGED thread_vars

Next ==
    \/ \E callback \in Subscribers : AddEventCallback(callback)
    \/ \E current_hooks \in HookLists : \E answers \in AnswersFor(current_hooks) :
           PerformScan(current_hooks, answers)
    \/ PerformScanError
    \/ \E hooks \in {h \in HookLists : Len(h) <= MaxSnapshotHooks} :
           \E answers \in AnswersFor(hooks) : Snapshot(hooks, answers)

Spec == Init /\ [][Next]_vars

-----------------------------------------------------------------------------
(* The monitor watching a process that owns three hook registrations. *)

\* The hook registrations of process 4120 the probe may report.
OwnedHooks ==
    <<HookInfo(1, "WH_KEYBOARD_LL", 4120, "badproc.exe", <<"C:", "Temp", "badproc.exe">>),
      HookInfo(2, "WH_KEYBOARD", 4120, "badproc.exe", <<"C:", "Temp", "badproc.exe">>),
      HookInfo(4, "WH_KEYBOARD_LL", 4120, "badproc.exe", <<"C:", "Temp", "badproc.exe">>)>>

\* A detect_hooks() result: some of them, in id order.
OwnedHookLists ==
    {SelectSeq(OwnedHooks, LAMBDA h : h.hook_id \in S) : S \in SUBSET {1, 2, 4}}

NextOwned ==
    \/ \E callback \in Subscribers : AddEventCallback(callback)
    \/ \E current_hooks \in OwnedHookLists : \E answers \in AnswersFor(current_hooks) :
           PerformScan(current_hooks, answers)
    \/ PerformScanError
    \/ \E hooks \in {h \in OwnedHookLists : Len(h) <= MaxSnapshotHooks} :
           \E answers \in AnswersFor(hooks) : Snapshot(hooks, answers)

SpecOwned == Init /\ [][NextOwned]_vars

-----------------------------------------------------------------------------
(* Platform probe: WindowsAPIEnumerator.detect_hooks (enumerator.py) *)

\* The processes of the machine the Windows probe runs on (the mock population):
\* what get_process_info(pid) returns.  Process 4 cannot be opened.
ProbeInfo(pid) ==
    CASE pid = 4 -> None
      [] pid = 2248 -> Explorer
      [] pid = 4120 -> BadProc
      [] pid = 5678 ->
             ProcessInfo(5678, "chrome.exe",
                         <<"C:", "Program Files", "Google", "Chrome", "Application", "chrome.exe">>,
                         2248, TRUE, FALSE, FALSE, <<"kernel32.dll", "user32.dll">>,
                         <<"NORMAL">>)
      [] pid = 8192 ->
             ProcessInfo(8192, "unknown.exe",
                         <<"C:", "Users", "User", "AppData", "Local", "Temp", "unknown.exe">>,
                         2248, FALSE, FALSE, FALSE, <<"ntdll.dll", "kernel32.dll">>,
                         <<"NORMAL">>)

ProbePids == {4, 2248, 4120, 5678, 8192}

\* What enumerate_processes() may return: the live pids, each once, in the
\* order EnumProcesses lists them.
PidLists ==
    {pids \in UNION {[1..n -> ProbePids] : n \in 0..Cardinality(ProbePids)} :
        \A i, j \in DOMAIN pids : i # j => pids[i] # pids[j]}

\* "user32" in dll.lower() or "hook" in dll.lower(), on the modules of the population.
IsHookIndicatorDll(dll) == Lower(dll) \in {"user32.dll", "keyhook.dll"}

\* _likely_has_hooks
LikelyHasHooks(proc_info) ==
    Lower(proc_info.name) \in {"explorer.exe", "skype.exe", "discord.exe", "slack.exe",
                               "teams.exe", "obs64.exe", "obs32.exe"}

\* The test detect_hooks applies to a process it could read.
HasHook(proc_info) ==
    \/ \E i \in DOMAIN proc_info.loaded_dlls : IsHookIndicatorDll(proc_info.loaded_dlls[i])
    \/ LikelyHasHooks(proc_info)

RECURSIVE DetectHooksFrom(_, _, _)
\* The loop of detect_hooks: `hooks` so far, `hook_id` the next id to hand out.
DetectHooksFrom(hooks, hook_id, pids) ==
    IF pids = <<>> THEN hooks
    ELSE LET pid == Head(pids)
             proc_info == ProbeInfo(pid)
         IN IF proc_info = None \/ ~HasHook(proc_info)
            THEN DetectHooksFrom(hooks, hook_id, Tail(pids))
            ELSE DetectHooksFrom(
                     Append(hooks, HookInfo(hook_id, "WH_KEYBOARD_LL", pid,
                                            proc_info.name, proc_info.path)),
                     hook_id + 1, Tail(pids))

\* WindowsAPIEnumerator.detect_hooks, enumerate_processes() returning pids.
DetectHooks(pids) == DetectHooksFrom(<<>>, 1, pids)

\* One detect_hooks() call of a monitor session on the Windows probe.
ProbeDetectHooks(pids) ==
    /\ enum_pids' = pids
    /\ enum_prev' = enum_hooks
    /\ enum_hooks' = DetectHooks(pids)
    /\ UNCHANGED monitor_vars
    /\ UNCHANGED thread_vars
    /\ UNCHANGED call_vars

NextProbe == \E pids \in PidLists : ProbeDetectHooks(pids)

SpecProbe == Init /\ [][NextProbe]_vars

-----------------------------------------------------------------------------
(* The process facts the probes produce: get_process_info (enumerator.py).  *)
(* The empty path "" is the empty sequence of components.                   *)

\* os.path.basename on a Windows path: what follows the last separator.
Basename(path) == IF path = <<>> THEN "" ELSE path[Len(path)]

\* f"<PID {pid}>"
PidName(pid) ==
    CASE pid = 4 -> "<PID 4>"
      [] pid = 2248 -> "<PID 2248>"
      [] pid = 4120 -> "<PID 4120>"
      [] OTHER -> "<PID>"

\* What QueryFullProcessImageNameW / GetModuleFileNameExW may write into the
\* path buffer when they succeed.
ImagePaths ==
    {<<"C:", "Windows", "explorer.exe">>, <<"C:", "Temp", "badproc.exe">>,
     <<"C:", "Windows", "System32", "svchost.exe">>}

\* The outcomes of one of these two calls: failure (0 returned, written <<>>),
\* or the path written into the buffer.
ImageAnswers == {<<>>} \cup ImagePaths

\* _get_process_name_path: (name, path)
GetProcessNamePath(pid, query, fallback) ==
    IF query # <<>> THEN [name |-> Basename(query), path |-> query]
    ELSE IF fallback # <<>> THEN [name |-> Basename(fallback), path |-> fallback]
    ELSE [name |-> PidName(pid), path |-> <<>>]

\* WindowsAPIEnumerator.get_process_info: None when the process cannot be
\* opened, else the fact built from what the helper calls return.
WindowsGetProcessInfo(pid, opened, query, fallback, rest) ==
    IF ~opened THEN None
    ELSE LET np == GetProcessNamePath(pid, query, fallback)
         IN ProcessInfo(pid, np.name, np.path, rest.parent_pid, rest.is_signed,
                        rest.hidden, rest.is_service, rest.dlls, rest.privileges)

\* What the other helper calls of get_process_info return.
RestAnswers ==
    [parent_pid : {2248}, is_signed : BOOLEAN, hidden : BOOLEAN, is_service : BOOLEAN,
     dlls : {<<"ntdll.dll", "user32.dll">>}, privileges : {<<"NORMAL">>, <<"ELEVATED">>}]

\* mock_data of MockEnumerator.get_process_info
MockData ==
    {ProcessInfo(4, "System", <<"C:", "Windows", "System32", "ntoskrnl.exe">>, 0, TRUE, TRUE,
                 TRUE, <<"ntdll.dll", "kernel32.dll">>, <<"SYSTEM">>),
     ProcessInfo(1234, "svchost.exe", <<"C:", "Windows", "System32", "svchost.exe">>, 4, TRUE,
                 TRUE, TRUE, <<"ntdll.dll", "kernel32.dll", "user32.dll">>, <<"NORMAL">>),
     ProcessInfo(2248, "explorer.exe", <<"C:", "Windows", "explorer.exe">>, 1234, TRUE, FALSE,
                 FALSE, <<"ntdll.dll", "kernel32.dll", "user32.dll", "shell32.dll">>,
                 <<"NORMAL">>),
     ProcessInfo(4120, "badproc.exe", <<"C:", "Temp", "badproc.exe">>, 2248, FALSE, TRUE,
                 FALSE, <<"ntdll.dll", "kernel32.dll", "user32.dll", "suspicious.dll">>,
                 <<"ELEVATED">>),
     ProcessInfo(8192, "unknown.exe",
                 <<"C:", "Users", "User", "AppData", "Local", "Temp", "unknown.exe">>, 2248,
                 FALSE, FALSE, FALSE, <<"ntdll.dll", "kernel32.dll">>, <<"NORMAL">>),
     ProcessInfo(5678, "chrome.exe",
                 <<"C:", "Program Files", "Google", "Chrome", "Application", "chrome.exe">>,
                 2248, TRUE, FALSE, FALSE, <<"ntdll.dll", "kernel32.dll", "user32.dll">>,
                 <<"NORMAL">>)}

\* MockEnumerator.get_process_info: mock_data.get(pid)
MockGetProcessInfo(pid) ==
    IF \E info \in MockData : info.pid = pid
    THEN CHOOSE info \in MockData : info.pid = pid
    ELSE None

\* MockEnumerator.enumerate_processes, and a pid the mock does not know.
MockPids == {4, 1234, 2248, 4120, 8192, 5678, 9999}

\* get_process_info(pid) on the Windows probe.
WindowsProbeCall(pid, opened, query, fallback, rest) ==
    /\ probe_fact' = [probe |-> "windows", pid |-> pid,
                      info |-> WindowsGetProcessInfo(pid, opened, query, fallback, rest)]
    /\ UNCHANGED <<core_call, core_result, eng_call, eng_result, classified, analyses,
                   eng_log, admin_call, target>>
    /\ UNCHANGED monitor_vars
    /\ UNCHANGED enum_vars
    /\ UNCHANGED thread_vars

\* get_process_info(pid) on the mock probe.
MockProbeCall(pid) ==
    /\ probe_fact' = [probe |-> "mock", pid |-> pid, info |-> MockGetProcessInfo(pid)]
    /\ UNCHANGED <<core_call, core_result, eng_call, eng_result, classified, analyses,
                   eng_log, admin_call, target>>
    /\ UNCHANGED monitor_vars
    /\ UNCHANGED enum_vars
    /\ UNCHANGED thread_vars

NextFacts ==
    \/ \E pid \in {4, 2248, 4120} : \E opened \in BOOLEAN :
           \E query \in ImageAnswers : \E fallback \in ImageAnswers : \E rest \in RestAnswers :
               WindowsProbeCall(pid, opened, query, fallback, rest)
    \/ \E pid \in MockPids : MockProbeCall(pid)

SpecFacts == Init /\ [][NextFacts]_vars

-----------------------------------------------------------------------------
(* Administrative actions: admin_actions.py.  The calls are aimed at the    *)
(* process badproc.exe (pid 4120) and its executable; `target` says what has *)
(* become of them.                                                           *)

\* str.strip() on the lines a user types.
Strip(line) ==
    CASE line = " badproc.exe " -> "badproc.exe"
      [] line = " yes " -> "yes"
      [] line = "  " -> ""
      [] OTHER -> line

\* UI.prompt_input: the stripped line, or the default when it is empty.
PromptInput(line, default) == IF Strip(line) # "" THEN Strip(line) ELSE default

\* UI.prompt_yes_no
PromptYesNo(line, default) ==
    Lower(PromptInput(line, IF default THEN "yes" ELSE "no")) \in {"yes", "y", "true", "1"}

\* The lines a user may type at the name prompt and at a yes/no prompt.
TypedNames == {"badproc.exe", " badproc.exe ", "BADPROC.EXE", "explorer.exe", "", "  "}

TypedAnswers == {"yes", " yes ", "YES", "Y", "y", "true", "1", "no", "n", "", "  ", "ok"}

\* The first test skipped: a caller without administrator rights goes on to
\* the prompts.
AdminGate_Open(is_admin) == TRUE

\* "if not self.is_admin: ... return False"
AdminGate(is_admin) == is_admin

\* terminate_process(proc_info, force): the value returned and the target
\* after the call.  `kill` is what _kill_process does: "ok" (the process is
\* terminated) or "failed" (OpenProcess or TerminateProcess raised).
TerminateProcess(t, proc_info, is_admin, typed, answer, kill) ==
    IF ~AdminGate(is_admin) THEN [returned |-> FALSE, target |-> t]
    ELSE IF PromptInput(typed, "") # proc_info.name THEN [returned |-> FALSE, target |-> t]
    ELSE IF ~PromptYesNo(answer, FALSE) THEN [returned |-> FALSE, target |-> t]
    ELSE IF kill = "ok"
         THEN [returned |-> TRUE, target |-> [t EXCEPT !.process = "terminated"]]
         ELSE [returned |-> FALSE, target |-> t]

\* suspend_process(proc_info); `suspend` is what _suspend_process_impl does:
\* "ok" (NtSuspendProcess returned 0) or "failed".
SuspendProcess(t, proc_info, is_admin, answer, suspend) ==
    IF ~AdminGate(is_admin) THEN [returned |-> FALSE, target |-> t]
    ELSE IF ~PromptYesNo(answer, FALSE) THEN [returned |-> FALSE, target |-> t]
    ELSE IF suspend = "ok"
         THEN [returned |-> TRUE, target |-> [t EXCEPT !.process = "suspended"]]
         ELSE [returned |-> FALSE, target |-> t]

\* quarantine_executable(proc_info); `move` is what the try block does: "ok",
\* "move_failed" (shutil.move raised), or "info_failed" (the file was moved and
\* writing the .info.txt file raised).
QuarantineExecutable(t, proc_info, is_admin, answer, move) ==
    IF ~AdminGate(is_admin) THEN [returned |-> FALSE, target |-> t]
    ELSE IF t.file # "in_place" THEN [returned |-> FALSE, target |-> t]
    ELSE IF ~PromptYesNo(answer, FALSE) THEN [returned |-> FALSE, target |-> t]
    ELSE CASE move = "ok" -> [returned |-> TRUE, target |-> [t EXCEPT !.file = "quarantined"]]
           [] move = "info_failed" ->
                  [returned |-> FALSE, target |-> [t EXCEPT !.file = "quarantined"]]
           [] OTHER -> [returned |-> FALSE, target |-> t]

\* One call of an administrative action on an AdminActions object whose
\* is_admin attribute is is_admin.
AdminCall(action, is_admin, typed, answer, outcome) ==
    /\ action = "terminate" => outcome \in {"ok", "failed"}
    /\ action = "suspend" => outcome \in {"ok", "failed"} /\ typed = ""
    /\ action = "quarantine" => outcome \in {"ok", "move_failed", "info_failed"} /\ typed = ""
    /\ (outcome = "ok" /\ action # "quarantine") => target.process # "terminated"
    /\ LET r == CASE action = "terminate" ->
                        TerminateProcess(target, BadProc, is_admin, typed, answer, outcome)
                  [] action = "suspend" ->
                        SuspendProcess(target, BadProc, is_admin, answer, outcome)
                  [] OTHER -> QuarantineExecutable(target, BadProc, is_admin, answer, outcome)
       IN /\ target' = r.target
          /\ admin_call' = [action |-> action, is_admin |-> is_admin, typed |-> typed,
                            answer |-> answer, returned |-> r.returned, before |-> target]
    /\ UNCHANGED <<core_call, core_result, eng_call, eng_result, classified, analyses,
                   eng_log, probe_fact>>
    /\ UNCHANGED monitor_vars
    /\ UNCHANGED enum_vars
    /\ UNCHANGED thread_vars

NextAdmin ==
    \E action \in {"terminate", "suspend", "quarantine"} : \E is_admin \in BOOLEAN :
        \E typed \in TypedNames : \E answer \in TypedAnswers :
            \E outcome \in {"ok", "failed", "move_failed", "info_failed"} :
                AdminCall(action, is_admin, typed, answer, outcome)

SpecAdmin == Init /\ [][NextAdmin]_vars

-----------------------------------------------------------------------------
(* Starting and stopping the monitor: HookMonitor.start, stop and            *)
(* _monitor_loop (monitor.py).  The control state (is_running,               *)
(* _stop_requested, _monitor_thread) is read and written by nothing else; a  *)
(* scan cycle's effect on the diff state is PerformScan's above, and here a  *)
(* cycle is the step of the loop that runs it, with what the loop can see of *)
(* it: it returns, having reported an error when the probe raised.           *)

\* Largest count the history of an activation keeps of the scan cycles begun
\* after a stop() call.
MaxCounted == 2

\* The start() and stop() calls of the session come from the thread that owns
\* the monitor; while a start(threaded=False) call runs its loop that thread is
\* in the loop, and stop() can only come from another thread.
Live(l) == loops[l].pc \notin {"none", "done"}

MainInLoop == \E l \in LoopIds : ~loops[l].threaded /\ Live(l)

\* self._monitor_thread and self._monitor_thread.is_alive()
IsAlive(thread) == \E l \in thread : Live(l)

\* The next activation start() creates.
NextLoop == CHOOSE l \in LoopIds : loops[l].pc = "none" /\ \A k \in 1..(l - 1) : loops[k].pc # "none"

\* The except clause of _perform_scan reporting the error twice.
ReportScanError_Twice(u) == [u EXCEPT !["scan_error"] = @ + 2]

\* The except clause of _perform_scan: self.ui.print_error("Error during scan: ...")
ReportScanError(u) == [u EXCEPT !["scan_error"] = @ + 1]

\* start(threaded)
Start(threaded) ==
    /\ starts < MaxStarts
    /\ ~MainInLoop
    /\ stop_pc = "idle"
    /\ starts' = starts + 1
    /\ IF is_running
       THEN /\ ui' = [ui EXCEPT !["already_running_warning"] = @ + 1]
            /\ UNCHANGED <<stop_requested, monitor_thread, loops>>
       ELSE /\ stop_requested' = FALSE
            /\ loops' = [loops EXCEPT ![NextLoop] = [pc |-> "spawned", threaded |-> threaded]]
            /\ monitor_thread' = IF threaded THEN {NextLoop} ELSE monitor_thread
            /\ UNCHANGED ui
    /\ loop_hist' = [l \in LoopIds |-> [loop_hist[l] EXCEPT !.stop_returned = FALSE]]
    /\ UNCHANGED <<is_running, stop_pc>>
    /\ UNCHANGED <<known_hooks, known_processes, events, on_event_callbacks, rules, calls,
                   scans, last>>
    /\ UNCHANGED enum_vars
    /\ UNCHANGED call_vars

\* stop(), up to the join of the background thread (or to its end when there
\* is no live thread to join).
Stop ==
    /\ stop_pc = "idle"
    /\ loop_hist' = [l \in LoopIds |->
                        [loop_hist[l] EXCEPT
                            !.stop_called = @ \/ Live(l),
                            !.stop_returned =
                                @ \/ (loops[l].threaded /\ loops[l].pc # "none"
                                         /\ ~(is_running /\ IsAlive(monitor_thread)))]]
    /\ IF ~is_running
       THEN UNCHANGED <<stop_requested, is_running, stop_pc>>
       ELSE /\ stop_requested' = TRUE
            /\ IF IsAlive(monitor_thread)
               THEN stop_pc' = "joining" /\ UNCHANGED is_running
               ELSE is_running' = FALSE /\ UNCHANGED stop_pc
    /\ UNCHANGED <<monitor_thread, loops, starts>>
    /\ UNCHANGED monitor_vars
    /\ UNCHANGED enum_vars
    /\ UNCHANGED call_vars

\* stop(): self._monitor_thread.join(timeout=5.0) returns, the thread having
\* ended (timed_out = FALSE) or the five seconds having passed; the rest of
\* stop() follows.
StopJoinReturn(timed_out) ==
    /\ stop_pc = "joining"
    /\ timed_out \/ ~IsAlive(monitor_thread)
    /\ is_running' = FALSE
    /\ stop_pc' = "idle"
    /\ loop_hist' = [l \in LoopIds |->
                        [loop_hist[l] EXCEPT
                            !.stop_returned = @ \/ (loops[l].threaded /\ loops[l].pc # "none")]]
    /\ UNCHANGED <<stop_requested, monitor_thread, loops, starts>>
    /\ UNCHANGED monitor_vars
    /\ UNCHANGED enum_vars
    /\ UNCHANGED call_vars

\* What the beginning of a scan cycle of activation l adds to the activation's
\* history.
BeginHist(l) ==
    [loop_hist[l] EXCEPT
        !.begun_after_stop = IF loop_hist[l].stop_called /\ @ < MaxCounted THEN @ + 1 ELSE @,
        !.ran_after_return = @ \/ loop_hist[l].stop_returned]

\* What the rest of the cycle adds to it.
CycleHist(l, raises) ==
    [loop_hist[l] EXCEPT
        !.failed_cycles = IF raises THEN @ + 1 ELSE @,
        !.rescanned = @ \/ loop_hist[l].failed_cycles > 0,
        !.ran_after_return = @ \/ loop_hist[l].stop_returned]

\* _monitor_loop: self.is_running = True
MonitorLoopBegin(l) ==
    /\ loops[l].pc = "spawned"
    /\ is_running' = TRUE
    /\ loops' = [loops EXCEPT ![l].pc = "initial_scan"]
    /\ UNCHANGED <<stop_requested, monitor_thread, starts, stop_pc, loop_hist>>
    /\ UNCHANGED monitor_vars
    /\ UNCHANGED enum_vars
    /\ UNCHANGED call_vars

\* _monitor_loop: a _perform_scan() call begins (the initial one when the
\* activation is at "initial_scan", else after time.sleep(interval) in the
\* while body).
MonitorLoopScanBegin(l) ==
    /\ loops[l].pc \in {"initial_scan", "sleep"}
    /\ loops' = [loops EXCEPT ![l].pc = "scanning"]
    /\ loop_hist' = [loop_hist EXCEPT ![l] = BeginHist(l)]
    /\ UNCHANGED <<is_running, stop_requested, monitor_thread, starts, stop_pc>>
    /\ UNCHANGED monitor_vars
    /\ UNCHANGED enum_vars
    /\ UNCHANGED call_vars

\* _monitor_loop: the _perform_scan() call runs and returns; `raises` says
\* whether the probe raised inside the cycle's try block.
MonitorLoopScan(l, raises) ==
    /\ loops[l].pc = "scanning"
    /\ raises => ui["scan_error"] < MaxScanErrors
    /\ ui' = IF raises THEN ReportScanError(ui) ELSE ui
    /\ loops' = [loops EXCEPT ![l].pc = "check"]
    /\ loop_hist' = [loop_hist EXCEPT ![l] = CycleHist(l, raises)]
    /\ UNCHANGED <<is_running, stop_requested, monitor_thread, starts, stop_pc>>
    /\ UNCHANGED <<known_hooks, known_processes, events, on_event_callbacks, rules, calls,
                   scans, last>>
    /\ UNCHANGED enum_vars
    /\ UNCHANGED call_vars

\* _monitor_loop: while not self._stop_requested
MonitorLoopCheck(l) ==
    /\ loops[l].pc = "check"
    /\ loops' = [loops EXCEPT ![l].pc = IF stop_requested THEN "finally" ELSE "sleep"]
    /\ UNCHANGED <<is_running, stop_requested, monitor_thread, starts, stop_pc, loop_hist>>
    /\ UNCHANGED monitor_vars
    /\ UNCHANGED enum_vars
    /\ UNCHANGED call_vars

\* _monitor_loop: finally: self.is_running = False
MonitorLoopFinally(l) ==
    /\ loops[l].pc = "finally"
    /\ is_running' = FALSE
    /\ loops' = [loops EXCEPT ![l].pc = "done"]
    /\ UNCHANGED <<stop_requested, monitor_thread, starts, stop_pc, loop_hist>>
    /\ UNCHANGED monitor_vars
    /\ UNCHANGED enum_vars
    /\ UNCHANGED call_vars

\* The steps of activation l.
MonitorLoop(l) ==
    \/ MonitorLoopBegin(l)
    \/ MonitorLoopScanBegin(l)
    \/ \E raises \in BOOLEAN : MonitorLoopScan(l, raises)
    \/ MonitorLoopCheck(l)
    \/ MonitorLoopFinally(l)

NextThreads ==
    \/ \E threaded \in BOOLEAN : Start(threaded)
    \/ Stop
    \/ \E timed_out \in BOOLEAN : StopJoinReturn(timed_out)
    \/ \E l \in LoopIds : MonitorLoop(l)

SpecThreads == Init /\ [][NextThreads]_vars

\* Every started activation keeps being scheduled, and a join that can return
\* does return.
FairThreads ==
    /\ \A l \in LoopIds : WF_vars(MonitorLoop(l))
    /\ WF_vars(\E timed_out \in BOOLEAN : StopJoinReturn(timed_out))

SpecThreadsFair == Init /\ [][NextThreads]_vars /\ FairThreads

-----------------------------------------------------------------------------
(* Decision core: ProductionKeyloggerDetector.analyze_process               *)
(* (keylogger_detector.py).  Confidence is counted in hundredths.  What the  *)
(* function asks of the machine is an input of the call: the company name    *)
(* _get_publisher reads from the file (None when there is none) and the      *)
(* behavioural indicators that psutil makes fire.                            *)

\* e occurs in p as consecutive components, anywhere: "<e1>\\<e2>..." in path.
\* (Whole components are matched: no component of the modelled population
\* merely contains another's text.)
SubPath(p, e) ==
    \E i \in 1..(Len(p) - Len(e) + 1) : \A j \in 1..Len(e) : p[i + j - 1] = e[j]

\* r'c:\<root>\\' in path: the raw string ends in TWO backslashes, so the
\* root must be followed by an empty component and a further separator.
HasDoubledRoot(p, root) ==
    \E i \in 1..(Len(p) - 3) : p[i] = "c:" /\ p[i + 1] = root /\ p[i + 2] = ""

\* _get_safe_process_names
SafeProcessNames ==
    {"system", "smss.exe", "csrss.exe", "wininit.exe", "services.exe", "lsass.exe",
     "svchost.exe", "explorer.exe", "taskhostw.exe", "dwm.exe", "winlogon.exe",
     "fontdrvhost.exe", "sihost.exe", "ctfmon.exe", "taskmgr.exe", "registry",
     "spoolsv.exe", "shellhost.exe", "lockapp.exe", "runtimebroker.exe",
     "applicationframehost.exe", "startmenuexperiencehost.exe", "searchhost.exe",
     "widgets.exe", "textinputhost.exe", "securityhealthsystray.exe",
     "securityhealthservice.exe", "winword.exe", "excel.exe", "powerpnt.exe",
     "outlook.exe", "onenote.exe", "teams.exe", "onedrive.exe", "chrome.exe",
     "firefox.exe", "msedge.exe", "iexplore.exe", "opera.exe", "brave.exe", "code.exe",
     "devenv.exe", "sublime_text.exe", "notepad.exe", "notepad++.exe", "pycharm64.exe",
     "idea64.exe", "discord.exe", "slack.exe", "zoom.exe", "spotify.exe", "vlc.exe",
     "steam.exe"}

\* any(trusted in pub_lower for trusted in self.trusted_publishers), on the
\* company names of the population: "hp inc." contains the entries 'hp inc.'
\* and 'hp'; "acme ltd" contains no entry.
HasTrustedPublisher(pub_lower) == pub_lower \in {"hp inc."}

\* trusted_paths of _is_trusted_location
TrustedPaths ==
    {<<"c:", "windows", "system32">>, <<"c:", "windows", "syswow64">>,
     <<"c:", "windows", "explorer.exe">>, <<"c:", "program files", "windowsapps">>,
     <<"c:", "windows", "systemapps">>, <<"c:", "windows", "winsxs">>,
     <<"c:", "program files", "hp">>, <<"c:", "program files", "nvidia corporation">>,
     <<"c:", "program files", "logioptionsplus">>, <<"c:", "program files", "logioptions">>,
     <<"c:", "program files", "dell">>, <<"c:", "program files", "intel">>,
     <<"c:", "program files", "amd">>, <<"c:", "program files", "realtek">>}

\* _is_trusted_location
IsTrustedLocation(file_path) ==
    LET path_lower == LowerPath(file_path)
    IN IF HasDoubledRoot(path_lower, "program files")
          \/ HasDoubledRoot(path_lower, "program files (x86)")
       THEN ~(HasDir(path_lower, "temp") \/ HasDir(path_lower, "cache")
              \/ HasDir(path_lower, "downloads"))
       ELSE \E safe \in TrustedPaths : SubPath(path_lower, safe)

\* _is_suspicious_location
IsSuspiciousLocation(file_path) ==
    LET path_lower == LowerPath(file_path)
    IN \/ HasDir(path_lower, "temp")
       \/ HasDir(path_lower, "tmp")
       \/ SubPath(path_lower, <<"appdata", "local", "temp">>)
       \/ SubPath(path_lower, <<"appdata", "roaming", "temp">>)
       \/ HasDir(path_lower, "downloads")
       \/ HasDir(path_lower, "desktop")
       \/ \E i \in 2..(Len(path_lower) - 1) :
              path_lower[i] = "documents" /\ path_lower[i + 1] = "random"

\* critical_processes of _detect_name_spoofing: name -> required path.
CriticalProcessPath(name_lower) ==
    CASE name_lower \in {"svchost.exe", "csrss.exe", "lsass.exe", "winlogon.exe", "dwm.exe"} ->
             <<"c:", "windows", "system32">>
      [] name_lower = "explorer.exe" -> <<"c:", "windows">>
      [] OTHER -> <<>>

\* _detect_name_spoofing (the flag of the pair it returns)
DetectNameSpoofing(name, path) ==
    /\ CriticalProcessPath(Lower(name)) # <<>>
    /\ ~SubPath(LowerPath(path), CriticalProcessPath(Lower(name)))

\* keywords of _has_keylogger_keywords, in the order of the list.
KeyloggerKeywords ==
    <<"keylog", "keystroke", "keycapture", "keyrecord", "pynput", "pyhook",
      "keyboard_hook", "kb_hook", "hook_keys", "capture_keys", "record_keys">>

\* The keywords a name or path component of the population contains.
KeywordsIn(text) == IF text = "pynput_keylog.exe" THEN {"keylog", "pynput"} ELSE {}

\* No keyword is ever found.
HasKeyloggerKeywords_None(name, path) == <<>>

\* _has_keylogger_keywords: [kw for kw in keywords if kw in full_text]
HasKeyloggerKeywords(name, path) ==
    LET found == KeywordsIn(Lower(name))
                     \cup UNION {KeywordsIn(Lower(path[i])) : i \in DOMAIN path}
    IN SelectSeq(KeyloggerKeywords, LAMBDA kw : kw \in found)

\* The behavioural checks of _advanced_behavioral_analysis, in the order it
\* runs them, with the confidence each adds.
AdvancedChecks ==
    <<[kind |-> "NETWORK EXFILTRATION", confidence |-> 35],
      [kind |-> "FILE LOGGING", confidence |-> 30],
      [kind |-> "MEMORY PATTERN", confidence |-> 20],
      [kind |-> "PROCESS ANCESTRY", confidence |-> 25],
      [kind |-> "DLL INJECTION", confidence |-> 30]>>

AdvancedIndicators == {AdvancedChecks[i].kind : i \in DOMAIN AdvancedChecks}

RECURSIVE SumConfidence(_)
SumConfidence(checks) ==
    IF checks = <<>> THEN 0 ELSE Head(checks).confidence + SumConfidence(Tail(checks))

\* _advanced_behavioral_analysis, `firing` being the checks whose psutil query
\* makes them fire: (confidence_boost, evidence_list).  An evidence line is
\* its label and the message that follows it; the messages of these checks
\* (addresses, sizes, thread counts, names of opened files and of parents) are
\* taken to hold no upper-case word the flags look for.
AdvancedBehavioralAnalysis(firing) ==
    LET fired == SelectSeq(AdvancedChecks, LAMBDA c : c.kind \in firing)
    IN [confidence |-> SumConfidence(fired),
        evidence |-> [i \in DOMAIN fired |-> [kind |-> fired[i].kind, message |-> <<>>]]]

\* The confidence handed over as accumulated.
ClampConfidence_None(confidence) == confidence

\* min(confidence, 1.0)
ClampConfidence(confidence) == IF confidence < 100 THEN confidence ELSE 100

\* Only the trusted-publisher test short-circuits.
WhitelistReturn_PublisherOnly(proc, publisher) ==
    IF publisher # None /\ HasTrustedPublisher(Lower(publisher.name))
       /\ ~DetectNameSpoofing(proc.name, proc.path)
    THEN "trusted_publisher"
    ELSE "continue"

\* The three early returns of analyze_process, in order: which of them returns
\* None, or "continue" when the indicators are evaluated.
WhitelistReturn(proc, publisher) ==
    IF Lower(proc.name) \in SafeProcessNames /\ ~DetectNameSpoofing(proc.name, proc.path)
    THEN "safe_name"
    ELSE IF IsTrustedLocation(proc.path) /\ ~DetectNameSpoofing(proc.name, proc.path)
    THEN "trusted_location"
    ELSE IF publisher # None /\ HasTrustedPublisher(Lower(publisher.name))
            /\ ~DetectNameSpoofing(proc.name, proc.path)
    THEN "trusted_publisher"
    ELSE "continue"

\* One indicator of analyze_process: when it fires, its evidence line (the
\* label and the text formatted into it), its threat-score points and its
\* confidence.
Indicator(fires, kind, message, points, confidence) ==
    IF fires
    THEN <<[kind |-> kind, message |-> message, points |-> points,
            confidence |-> confidence]>>
    ELSE <<>>

RECURSIVE SumPoints(_)
SumPoints(fired) == IF fired = <<>> THEN 0 ELSE Head(fired).points + SumPoints(Tail(fired))

\* Indicators 1 to 6 of analyze_process, in order of evaluation.
BasicIndicators(proc, publisher) ==
    Indicator(DetectNameSpoofing(proc.name, proc.path), "NAME SPOOFING",
              <<proc.name>> \o CriticalProcessPath(Lower(proc.name)), 2, 40)
    \o Indicator(HasKeyloggerKeywords(proc.name, proc.path) # <<>>, "KEYLOGGER KEYWORDS",
                 HasKeyloggerKeywords(proc.name, proc.path), 2, 50)
    \o Indicator(~proc.is_signed, "Unsigned binary with keyboard hook", <<>>, 1, 20)
    \o Indicator(IsSuspiciousLocation(proc.path), "Suspicious location", proc.path, 1, 25)
    \o Indicator(publisher = None /\ ~IsTrustedLocation(proc.path),
                 "Unknown publisher in non-standard location", <<>>, 1, 15)
    \o Indicator(proc.is_hidden, "Hidden process with keyboard hook", <<>>, 1, 20)

\* The labels of the lines of an evidence list.
Kinds(evidence) == [i \in DOMAIN evidence |-> evidence[i].kind]

\* The upper-case words of the flag tests that a label holds.
KindMarkers(kind) ==
    CASE kind = "NETWORK EXFILTRATION" -> {"NETWORK"}
      [] kind = "FILE LOGGING" -> {"FILE LOGGING"}
      [] kind = "MEMORY PATTERN" -> {"MEMORY"}
      [] kind = "PROCESS ANCESTRY" -> {"ANCESTRY"}
      [] kind = "DLL INJECTION" -> {"INJECTION"}
      [] OTHER -> {}

\* The upper-case words of the flag tests that a name or path component of the
\* population holds ("in" on str is case-sensitive).
MarkersIn(text) ==
    CASE text = "NETWORK" -> {"NETWORK"}
      [] text = "MEMORY.exe" -> {"MEMORY"}
      [] OTHER -> {}

\* '<marker>' in e, for an evidence line e.
LineHas(line, marker) ==
    \/ marker \in KindMarkers(line.kind)
    \/ \E i \in DOMAIN line.message : marker \in MarkersIn(line.message[i])

\* any('<marker>' in e for e in evidence)
AnyLineHas(evidence, marker) == \E i \in DOMAIN evidence : LineHas(evidence[i], marker)

\* KeyloggerDetection
KeyloggerDetection(pid, name, path, confidence, evidence, threat_score) ==
    [pid |-> pid, name |-> name, path |-> path, confidence |-> confidence,
     evidence |-> evidence, threat_score |-> threat_score,
     network_activity |-> AnyLineHas(evidence, "NETWORK"),
     file_logging |-> AnyLineHas(evidence, "FILE LOGGING"),
     memory_suspicious |-> AnyLineHas(evidence, "MEMORY"),
     process_injection |->
         AnyLineHas(evidence, "INJECTION") \/ AnyLineHas(evidence, "ANCESTRY")]

\* analyze_process(proc): where it returned, the evidence, threat score and
\* confidence it had accumulated there, and the value it returned.
DetectorAnalyzeProcess(proc, publisher, firing) ==
    LET returned_at == WhitelistReturn(proc, publisher)
        basic == BasicIndicators(proc, publisher)
        adv == AdvancedBehavioralAnalysis(firing)
        evidence == [i \in DOMAIN basic |->
                         [kind |-> basic[i].kind, message |-> basic[i].message]]
                        \o (IF adv.confidence > 0 THEN adv.evidence ELSE <<>>)
        threat_score == SumPoints(basic)
                            + (IF adv.confidence > 0 THEN Len(adv.evidence) ELSE 0)
        confidence == SumConfidence(basic) + (IF adv.confidence > 0 THEN adv.confidence ELSE 0)
    IN IF returned_at # "continue"
       THEN [returned_at |-> returned_at, evidence |-> <<>>, threat_score |-> 0,
             confidence |-> 0, detection |-> None]
       ELSE [returned_at |-> "decision", evidence |-> evidence,
             threat_score |-> threat_score, confidence |-> confidence,
             detection |->
                 IF threat_score >= 3
                 THEN KeyloggerDetection(proc.pid, proc.name, proc.path,
                                         ClampConfidence(confidence), evidence, threat_score)
                 ELSE None]

\* The processes handed to analyze_process: scan_system's dictionary of a
\* hooked process (pid, name, path, is_signed, is_hidden).
CoreNames ==
    {"svchost.exe", "chrome.exe", "pynput_keylog.exe", "HPHelper.exe", "tool.exe",
     "MEMORY.exe"}

CoreDirs ==
    {<<"C:", "Windows", "System32">>,
     <<"C:", "Temp">>,
     <<"C:", "Temp", "NETWORK">>,
     <<"C:", "Users", "U", "AppData", "Local", "Temp">>,
     <<"C:", "Program Files", "HP">>,
     <<"C:", "Program Files", "Acme">>,
     <<"C:", "Program Files", "", "Acme">>,
     <<"C:", "Users", "U", "Tools">>}

CorePids == {8192}

CoreProcs ==
    {[pid |-> pid, name |-> name, path |-> dir \o <<name>>, is_signed |-> is_signed,
      is_hidden |-> is_hidden] :
        pid \in CorePids, name \in CoreNames, dir \in CoreDirs,
        is_signed \in BOOLEAN, is_hidden \in BOOLEAN}

\* What _get_publisher may return for the file.
Publishers == {None, [name |-> "Acme Ltd"], [name |-> "HP Inc."]}

\* One analyze_process call.
DetectorCall(proc, publisher, firing) ==
    /\ analyses < MaxAnalyses
    /\ analyses' = analyses + 1
    /\ core_call' = [proc |-> proc, publisher |-> publisher, firing |-> firing]
    /\ core_result' = DetectorAnalyzeProcess(proc, publisher, firing)
    /\ UNCHANGED <<eng_call, eng_result, classified, eng_log, probe_fact, admin_call,
                   target>>
    /\ UNCHANGED monitor_vars
    /\ UNCHANGED enum_vars
    /\ UNCHANGED thread_vars

NextCore ==
    \E proc \in CoreProcs : \E publisher \in Publishers :
        \E firing \in SUBSET AdvancedIndicators : DetectorCall(proc, publisher, firing)

SpecCore == Init /\ [][NextCore]_vars

-----------------------------------------------------------------------------
(* Heuristic engine called directly: HeuristicEngine(sensitivity)            *)
(* .analyze_process(proc, hook_count) and classify_risk(score).              *)

\* classify_risk
ClassifyRisk(score) ==
    IF score >= 61 THEN "HIGH"
    ELSE IF score >= 31 THEN "MEDIUM"
    ELSE IF score >= 0 THEN "LOW"
    ELSE "UNKNOWN"

Sensitivities == {"low", "medium", "high"}

\* The process facts handed to the engine.
EngineNames == {"svchost.exe", "badproc.exe", "taskmgr.exe"}

EngineDirs == {<<"C:", "Temp">>, <<"C:", "Windows", "System32">>, <<"C:", "Users", "User">>}

EngineProcs ==
    {ProcessInfo(4120, name, dir \o <<name>>, parent_pid, is_signed, hidden, is_service,
                 dlls, privileges) :
        name \in EngineNames, dir \in EngineDirs, parent_pid \in {2, 2248},
        is_signed \in BOOLEAN, hidden \in BOOLEAN, is_service \in BOOLEAN,
        dlls \in {<<"user32.dll">>, <<"user32.dll", "suspicious.dll">>},
        privileges \in {<<"NORMAL">>, <<"ELEVATED">>}}

\* The scores handed to classify_risk.
ClassifyScores == (-2)..MaxScore

\* HeuristicEngine(sensitivity).analyze_process(proc, hook_count)
EngineCall(sensitivity, proc, hook_count) ==
    /\ analyses < MaxAnalyses
    /\ analyses' = analyses + 1
    /\ eng_call' = [sensitivity |-> sensitivity, proc |-> proc, hook_count |-> hook_count]
    /\ eng_result' = AnalyzeProcess(sensitivity, proc, hook_count)
    /\ UNCHANGED <<core_call, core_result, classified, eng_log, probe_fact, admin_call,
                   target>>
    /\ UNCHANGED monitor_vars
    /\ UNCHANGED enum_vars
    /\ UNCHANGED thread_vars

\* classify_risk(score)
ClassifyRiskCall(score) ==
    /\ analyses < MaxAnalyses
    /\ analyses' = analyses + 1
    /\ classified' = [score |-> score, level |-> ClassifyRisk(score)]
    /\ UNCHANGED <<core_call, core_result, eng_call, eng_result, eng_log, probe_fact,
                   admin_call, target>>
    /\ UNCHANGED monitor_vars
    /\ UNCHANGED enum_vars
    /\ UNCHANGED thread_vars

NextEngine ==
    \/ \E sensitivity \in Sensitivities : \E proc \in EngineProcs : \E hook_count \in {1, 3} :
           EngineCall(sensitivity, proc, hook_count)
    \/ \E score \in ClassifyScores : ClassifyRiskCall(score)

SpecEngine == Init /\ [][NextEngine]_vars

-----------------------------------------------------------------------------
(* One engine analysing one process after another.  The RiskRule objects of *)
(* the engine (`rules`) are shared by every assessment it returns: an        *)
(* assessment's triggered_rules are references to them.                      *)

\* "for rule in self.rules.values(): rule.triggered = False; rule.evidence = ''"
ResetRules(rule_objects) ==
    [k \in DOMAIN rule_objects |-> [triggered |-> FALSE, evidence |-> <<>>]]

\* _generate_explanation: the score and, per triggered rule, the rule and its
\* weight (or the "no suspicious indicators" text when nothing triggered).
GenerateExplanation(sensitivity, triggered, score) ==
    IF triggered = <<>>
    THEN <<"No suspicious indicators detected", score>>
    ELSE <<"Score", score, "Triggered",
           [i \in DOMAIN triggered |-> <<RuleId(triggered[i]), Weight(sensitivity, triggered[i])>>]>>

\* analyze_process without the reset, the triggered list being read off the
\* rule objects' flags: a rule marked by an earlier call stays triggered.
AnalyzeProcessOn_KeepTriggered(rule_objects, sensitivity, proc, hook_count) ==
    LET a == AnalyzeProcess(sensitivity, proc, hook_count)
        after == [k \in DOMAIN rule_objects |->
                     IF a.rules[k].triggered THEN a.rules[k] ELSE rule_objects[k]]
        fired == SelectSeq(RuleOrder, LAMBDA k : after[k].triggered)
        score == SumWeights(sensitivity, fired)
    IN [assessment |-> [a.assessment EXCEPT !.triggered_rules = fired,
                                            !.risk_score = score,
                                            !.risk_level = LevelOf(score)],
        rules |-> after]

\* analyze_process on an engine whose rule objects are rule_objects: every
\* object is reset, then the checks that fire mark theirs.
AnalyzeProcessOn(rule_objects, sensitivity, proc, hook_count) ==
    LET reset == ResetRules(rule_objects)
        a == AnalyzeProcess(sensitivity, proc, hook_count)
    IN [assessment |-> a.assessment,
        rules |-> [k \in DOMAIN reset |->
                      IF a.rules[k].triggered THEN a.rules[k] ELSE reset[k]]]

\* The process facts handed to the engine.
SeqProcs == {BadProc, BadProcSigned, Explorer, ExplorerHooked}

\* An assessment as its receiver reads it: the triggered rules with the fields
\* of the rule objects they refer to.
AssessmentContent(assessment, rule_objects) ==
    [assessment EXCEPT !.triggered_rules =
        [j \in DOMAIN @ |->
            [rule_id |-> RuleId(@[j]),
             triggered |-> rule_objects[@[j]].triggered,
             evidence |-> rule_objects[@[j]].evidence]]]

\* engine.analyze_process(proc, hook_count), the engine having been built with
\* this sensitivity; the log keeps the call, the assessment and explanation
\* returned and the assessment's content at the moment of the return.
EngineSeqCall(sensitivity, proc, hook_count) ==
    /\ Len(eng_log) < MaxEngineCalls
    /\ eng_log # <<>> => eng_log[1].sensitivity = sensitivity
    /\ LET a == AnalyzeProcessOn(rules, sensitivity, proc, hook_count)
       IN /\ rules' = a.rules
          /\ eng_log' = Append(eng_log,
                 [sensitivity |-> sensitivity, proc |-> proc, hook_count |-> hook_count,
                  assessment |-> a.assessment,
                  explanation |-> GenerateExplanation(sensitivity,
                                      a.assessment.triggered_rules, a.assessment.risk_score),
                  returned |-> AssessmentContent(a.assessment, a.rules)])
    /\ UNCHANGED <<known_hooks, known_processes, events, on_event_callbacks, calls, ui,
                   scans, last>>
    /\ UNCHANGED <<core_call, core_result, eng_call, eng_result, classified, analyses,
                   probe_fact, admin_call, target>>
    /\ UNCHANGED enum_vars
    /\ UNCHANGED thread_vars

NextEngineSeq ==
    \E sensitivity \in Sensitivities : \E proc \in SeqProcs : \E hook_count \in {1, 3} :
        EngineSeqCall(sensitivity, proc, hook_count)

SpecEngineSeq == Init /\ [][NextEngineSeq]_vars

-----------------------------------------------------------------------------
(* Properties of the monitor's scan cycle.  `last` describes the last        *)
(* _perform_scan call; the events it appended are those after last.n_events *)
(* and the callback invocations it made are those after last.n_calls.       *)

CycleEventIdx == (last.n_events + 1)..Len(events)

CycleCalls == SubSeq(calls, last.n_calls + 1, Len(calls))

CurrentIds == {last.current[i].hook_id : i \in DOMAIN last.current}

KnownBefore == DOMAIN last.known_hooks

\* The hook of the last cycle's probe result with this id.
CurrentHook(id) == last.current[CHOOSE i \in DOMAIN last.current : last.current[i].hook_id = id]

\* The indexes of the last cycle's events of this type about this hook id.
CycleEventsOf(event_type, id) ==
    {i \in CycleEventIdx :
        events[i].event_type = event_type /\ events[i].hook_info.hook_id = id}

\* C1: every hook_added event of a cycle carries a hook id that the probe
\* reported in that cycle and that was not in known_hooks as the previous cycle
\* left it; every hook_removed event carries a hook id that was in known_hooks
\* and that the probe did not report in that cycle.
C1_DiffSoundness ==
    \A i \in CycleEventIdx :
        /\ events[i].event_type = "hook_added" =>
               /\ events[i].hook_info.hook_id \in CurrentIds
               /\ events[i].hook_info.hook_id \notin KnownBefore
        /\ events[i].event_type = "hook_removed" =>
               /\ events[i].hook_info.hook_id \in KnownBefore
               /\ events[i].hook_info.hook_id \notin CurrentIds

\* A second cycle that emitted both a hook_added and a hook_removed event while
\* a hook known before stayed.
C1_Witness ==
    /\ last.n = 2
    /\ KnownBefore \cap CurrentIds # {}
    /\ \E i, j \in CycleEventIdx :
           events[i].event_type = "hook_added" /\ events[j].event_type = "hook_removed"

\* C2: within one cycle the hook_removed events are appended to the log (and
\* delivered) before the hook_added events.
C2_RemovedBeforeAdded ==
    \A i, j \in CycleEventIdx :
        events[i].event_type = "hook_removed" /\ events[j].event_type = "hook_added"
            => i < j

\* C3 as stated: in a cycle that completes, every hook id the probe reports
\* and known_hooks lacks yields exactly one hook_added event, with an assessment.
C3_EveryNewHookAdded ==
    last.completed =>
        \A id \in CurrentIds \ KnownBefore :
            /\ Cardinality(CycleEventsOf("hook_added", id)) = 1
            /\ \A i \in CycleEventsOf("hook_added", id) : events[i].risk_assessment # None

\* C3 amended: in a cycle that completes, every new hook id whose owner process
\* get_process_info can read yields exactly one hook_added event, carrying that
\* process fact and an assessment of that process; a new hook id whose owner
\* cannot be read yields no event, and one warning is reported for each.
C3_ReadableNewHookAdded ==
    last.completed =>
        /\ \A id \in CurrentIds \ KnownBefore :
               LET owner == CurrentHook(id).owner_pid
               IN IF last.answers[owner] # None
                  THEN /\ Cardinality(CycleEventsOf("hook_added", id)) = 1
                       /\ \A i \in CycleEventsOf("hook_added", id) :
                              /\ events[i].process_info = last.answers[owner]
                              /\ events[i].risk_assessment # None
                              /\ events[i].risk_assessment.pid = owner
                  ELSE CycleEventsOf("hook_added", id) = {}
        /\ ui["no_access_warning"] - last.ui["no_access_warning"] =
               Cardinality({id \in CurrentIds \ KnownBefore :
                               last.answers[CurrentHook(id).owner_pid] = None})

\* A cycle with one new hook whose owner is read and one whose owner is not.
C3_Witness ==
    /\ last.completed
    /\ \E id \in CurrentIds \ KnownBefore :
           /\ last.answers[CurrentHook(id).owner_pid] # None
           /\ CycleEventsOf("hook_added", id) # {}
    /\ \E id \in CurrentIds \ KnownBefore :
           last.answers[CurrentHook(id).owner_pid] = None

\* C4: every event of the log, whatever its type, was passed exactly once to
\* every callback registered when it was emitted.
C4_EveryEventDelivered ==
    \A i \in CycleEventIdx : \A c \in DOMAIN last.callbacks :
        Cardinality({k \in DOMAIN calls : calls[k] = <<c, i>>}) = 1

\* The indexes of the last cycle's hook_added and hook_removed events, ascending.
DeliveredIdx ==
    SortedSeq({i \in CycleEventIdx : events[i].event_type \in {"hook_added", "hook_removed"}})

\* C5: a hook_added or hook_removed event is passed to the registered callbacks
\* in registration order before the next event is handled; a callback that
\* raises keeps no later callback from being called, and each raise is reported
\* by exactly one error message.
C5_SubscriberIsolation ==
    LET n == Len(last.callbacks)
    IN /\ Len(CycleCalls) = Len(DeliveredIdx) * n
       /\ \A k \in DOMAIN CycleCalls :
              CycleCalls[k] = <<((k - 1) % n) + 1, DeliveredIdx[((k - 1) \div n) + 1]>>
       /\ ui["callback_error"] - last.ui["callback_error"] =
              Cardinality({k \in DOMAIN CycleCalls : Raises(last.callbacks[CycleCalls[k][1]])})

\* A hook_added event delivered to s1 (raises) and then to s2 (records), with
\* exactly one error message.
C5_Witness ==
    /\ last.callbacks = <<"s1", "s2">>
    /\ Len(DeliveredIdx) = 1
    /\ events[DeliveredIdx[1]].event_type = "hook_added"
    /\ CycleCalls = <<<<1, DeliveredIdx[1]>>, <<2, DeliveredIdx[1]>>>>
    /\ ui["callback_error"] = last.ui["callback_error"] + 1

\* C6: after a cycle that completes, the keys of known_hooks are exactly the
\* hook ids the probe returned in that cycle (and each maps to that hook).
C6_KnownHooksReplaced ==
    last.completed =>
        /\ DOMAIN known_hooks = CurrentIds
        /\ \A id \in CurrentIds : known_hooks[id] = CurrentHook(id)

\* After {1,2} then {2,3}, known_hooks is {2,3}.
C6_Witness ==
    /\ last.completed
    /\ KnownBefore = {1, 2}
    /\ CurrentIds = {2, 3}
    /\ DOMAIN known_hooks = {2, 3}

\* C7: after a cycle that completes, known_processes has entries only for
\* pids that own a hook of the current hook set.
C7_KnownProcessesReplaced ==
    last.completed => DOMAIN known_processes \subseteq Owners(last.current)


\* C8: the same hook registration (owner pid, hook type, module path) gets the
\* same hook_id from detect_hooks in consecutive cycles of a session, whatever
\* other processes came or went in between.
C8_HookIdStable ==
    \A i \in DOMAIN enum_prev : \A j \in DOMAIN enum_hooks :
        /\ enum_prev[i].owner_pid = enum_hooks[j].owner_pid
        /\ enum_prev[i].hook_type = enum_hooks[j].hook_type
        /\ enum_prev[i].module_path = enum_hooks[j].module_path
        => enum_prev[i].hook_id = enum_hooks[j].hook_id

\* The difference the claim names: path, is_signed, or a loaded module the
\* previous fact did not contain.
FactDiffers(old_proc, new_proc) ==
    \/ old_proc.path # new_proc.path
    \/ old_proc.is_signed # new_proc.is_signed
    \/ Range(new_proc.loaded_dlls) \ Range(old_proc.loaded_dlls) # {}

\* Position of the hook with this id in the last cycle's probe result.
CurrentPos(id) == CHOOSE i \in DOMAIN last.current : last.current[i].hook_id = id

C10_SnapshotFrame ==
    [][(scans' = scans /\ on_event_callbacks' = on_event_callbacks) =>
           /\ known_hooks' = known_hooks
           /\ known_processes' = known_processes
           /\ LogContent(events', rules') = LogContent(events, rules)
           /\ calls' = calls]_vars

-----------------------------------------------------------------------------
(* Properties of start(), stop() and the monitor loop. *)

\* C11: start() called on a monitor that has been started and on which stop()
\* has not been called creates no second loop activation (and so leaves the
\* stop-request flag alone): as long as no stop() call has met an activation,
\* at most one activation exists.
C11_StartWhileStartedNoOp ==
    (\A l \in LoopIds : ~loop_hist[l].stop_called) =>
        Cardinality({l \in LoopIds : loops[l].pc # "none"}) <= 1

\* C12: once stop() has been called on a started monitor, every loop
\* activation that was started then eventually exits, and begins at most one
\* further scan cycle after the call.
C12_Cancellation ==
    \A l \in LoopIds :
        /\ [](loop_hist[l].begun_after_stop <= 1)
        /\ loop_hist[l].stop_called ~> (loops[l].pc = "done")

\* C13: a scan cycle in which the probe raises reports exactly one error,
\* leaves is_running as it is and returns to the loop's while test like any
\* other cycle; the loop leaves its while statement only on a stop request, and
\* after a failed cycle it runs a further cycle unless it has left on one.
C13_ProbeFailureIsolated ==
    /\ [][\A l \in LoopIds :
             loop_hist'[l].failed_cycles = loop_hist[l].failed_cycles + 1 =>
                 /\ ui'["scan_error"] = ui["scan_error"] + 1
                 /\ is_running' = is_running
                 /\ loops'[l].pc = "check"]_vars
    /\ [][\A l \in LoopIds :
             (loops[l].pc # "finally" /\ loops'[l].pc = "finally") => stop_requested]_vars
    /\ \A l \in LoopIds :
           (loop_hist[l].failed_cycles > 0) ~>
               (loop_hist[l].rescanned \/ loops[l].pc \in {"finally", "done"})

\* A running monitor whose loop had one failed cycle, reported once, and has run
\* another cycle since.
C13_Witness ==
    \E l \in LoopIds :
        /\ loop_hist[l].failed_cycles = 1
        /\ loop_hist[l].rescanned
        /\ ui["scan_error"] = 1
        /\ is_running
        /\ ~stop_requested
        /\ Live(l)

-----------------------------------------------------------------------------
(* Properties of the decision core.                                         *)

\* C14: the decision core never emits a Detection whose threat_score is below
\* 3 or whose confidence exceeds 1.0 (100 hundredths); the detection carries
\* the score and evidence accumulated by the call.
C14_DetectionThreshold ==
    (core_result # None /\ core_result.detection # None) =>
        /\ core_result.detection.threat_score >= 3
        /\ core_result.detection.threat_score = core_result.threat_score
        /\ core_result.detection.confidence >= 0
        /\ core_result.detection.confidence <= 100

\* A detection whose accumulated confidence exceeded 1.0 and was clamped.
C14_Witness ==
    /\ core_result # None
    /\ core_result.detection # None
    /\ core_result.confidence > 100
    /\ core_result.detection.confidence = 100

\* C15: the whitelist short-circuit is a conjunction of safe name, trusted
\* location and no spoofing: a call whose process has a safe name but an
\* untrusted location, and no trusted publisher, reaches the indicators.
C15_WhitelistConjunction ==
    (/\ core_call # None
     /\ Lower(core_call.proc.name) \in SafeProcessNames
     /\ ~IsTrustedLocation(core_call.proc.path)
     /\ ~(core_call.publisher # None /\ HasTrustedPublisher(Lower(core_call.publisher.name))))
        => core_result.returned_at = "decision"

\* C16: a call whose process has a safe name and a trusted location, and for
\* which name spoofing does not fire, returns None before any indicator is
\* evaluated, whatever the signature, the window, the publisher and the
\* behavioural indicators are.
C16_WhitelistShortCircuit ==
    (/\ core_call # None
     /\ Lower(core_call.proc.name) \in SafeProcessNames
     /\ IsTrustedLocation(core_call.proc.path)
     /\ ~DetectNameSpoofing(core_call.proc.name, core_call.proc.path))
        => /\ core_result.detection = None
           /\ core_result.returned_at # "decision"

\* svchost.exe in System32, unsigned and hidden, with every behavioural
\* indicator firing and no publisher: returned None on the whitelist.
C16_Witness ==
    /\ core_call # None
    /\ core_call.proc.name = "svchost.exe"
    /\ core_call.proc.path = <<"C:", "Windows", "System32", "svchost.exe">>
    /\ ~core_call.proc.is_signed
    /\ core_call.proc.is_hidden
    /\ core_call.publisher = None
    /\ core_call.firing = AdvancedIndicators
    /\ core_result.detection = None
    /\ core_result.returned_at = "safe_name"

\* C17: for a process whose executable lies under a Program Files root
\* (C:\Program Files\... or C:\Program Files (x86)\...) the
\* "unknown publisher in non-standard location" indicator is never added to
\* the evidence, even when no publisher can be read.
C17_ProgramFilesMitigation ==
    (/\ core_call # None
     /\ \/ HasRootDir(LowerPath(core_call.proc.path), "program files")
        \/ HasRootDir(LowerPath(core_call.proc.path), "program files (x86)"))
        => "Unknown publisher in non-standard location"
               \notin Range(Kinds(core_result.evidence))

\* C18 as stated: scenario 3 (pid 8192, pynput_keylog.exe in the user's
\* AppData\Local\Temp, unsigned, no behavioural indicator firing) emits a
\* Detection whose threat_score is exactly 4.
C18_Scenario3_Score4 ==
    (/\ core_call # None
     /\ core_call.proc.pid = 8192
     /\ core_call.proc.name = "pynput_keylog.exe"
     /\ core_call.proc.path = <<"C:", "Users", "U", "AppData", "Local", "Temp", "pynput_keylog.exe">>
     /\ ~core_call.proc.is_signed
     /\ ~core_call.proc.is_hidden
     /\ core_call.firing = {})
        => /\ core_result.detection # None
           /\ core_result.detection.threat_score = 4

\* C18, amended: scenario 3 fires keyword (+2), unsigned (+1) and suspicious
\* location (+1) and emits a Detection, unless the file's publisher is a
\* trusted one (then None); the threat_score is 4 when a publisher can be read
\* and 5 when none can, the unknown-publisher indicator (+1) firing as well.
C18_Scenario3 ==
    (/\ core_call # None
     /\ core_call.proc.pid = 8192
     /\ core_call.proc.name = "pynput_keylog.exe"
     /\ core_call.proc.path = <<"C:", "Users", "U", "AppData", "Local", "Temp", "pynput_keylog.exe">>
     /\ ~core_call.proc.is_signed
     /\ ~core_call.proc.is_hidden
     /\ core_call.firing = {})
        => IF core_call.publisher # None /\ HasTrustedPublisher(Lower(core_call.publisher.name))
           THEN core_result.detection = None /\ core_result.returned_at = "trusted_publisher"
           ELSE /\ core_result.detection # None
                /\ Kinds(core_result.detection.evidence) =
                       <<"KEYLOGGER KEYWORDS", "Unsigned binary with keyboard hook",
                         "Suspicious location">>
                       \o (IF core_call.publisher = None
                           THEN <<"Unknown publisher in non-standard location">>
                           ELSE <<>>)
                /\ core_result.detection.threat_score =
                       (IF core_call.publisher = None THEN 5 ELSE 4)
                /\ core_result.detection.confidence =
                       (IF core_call.publisher = None THEN 100 ELSE 95)

\* Scenario 3 analysed with no readable publisher: a Detection of score 5.
C18_Witness ==
    /\ core_call # None
    /\ core_call.proc.pid = 8192
    /\ core_call.proc.name = "pynput_keylog.exe"
    /\ core_call.proc.path = <<"C:", "Users", "U", "AppData", "Local", "Temp", "pynput_keylog.exe">>
    /\ ~core_call.proc.is_signed
    /\ ~core_call.proc.is_hidden
    /\ core_call.firing = {}
    /\ core_call.publisher = None
    /\ core_result.detection # None
    /\ core_result.detection.threat_score = 5

-----------------------------------------------------------------------------
(* Properties of the heuristic engine called directly.                      *)

\* C19 as stated: scenario 2 at medium sensitivity (pid 4120, svchost.exe at
\* C:\Temp\svchost.exe, unsigned, hidden window, not a service, modules
\* user32.dll and suspicious.dll, ELEVATED) triggers exactly R001, R002, R003,
\* R005, R007 and R008, scores 155 and is HIGH.
C19_Scenario2_155 ==
    (/\ eng_call # None
     /\ eng_call.sensitivity = "medium"
     /\ eng_call.hook_count = 1
     /\ eng_call.proc = ProcessInfo(4120, "svchost.exe", <<"C:", "Temp", "svchost.exe">>, 2248,
                                    FALSE, TRUE, FALSE, <<"user32.dll", "suspicious.dll">>,
                                    <<"ELEVATED">>))
        => /\ {RuleId(k) : k \in Range(eng_result.assessment.triggered_rules)}
                  = {"R001", "R002", "R003", "R005", "R007", "R008"}
           /\ eng_result.assessment.risk_score = 155
           /\ eng_result.assessment.risk_level = "HIGH"

\* C19, amended: scenario 2 at medium sensitivity triggers exactly R001, R002,
\* R003, R004, R005, R007 and R008, in this order, scores
\* 25+20+30+15+25+20+35 = 170 and is HIGH.
C19_Scenario2 ==
    (/\ eng_call # None
     /\ eng_call.sensitivity = "medium"
     /\ eng_call.hook_count = 1
     /\ eng_call.proc = ProcessInfo(4120, "svchost.exe", <<"C:", "Temp", "svchost.exe">>, 2248,
                                    FALSE, TRUE, FALSE, <<"user32.dll", "suspicious.dll">>,
                                    <<"ELEVATED">>))
        => /\ [i \in DOMAIN eng_result.assessment.triggered_rules |->
                  RuleId(eng_result.assessment.triggered_rules[i])]
                  = <<"R001", "R002", "R003", "R004", "R005", "R007", "R008">>
           /\ eng_result.assessment.risk_score = 170
           /\ eng_result.assessment.risk_level = "HIGH"

\* Scenario 2 analysed at medium sensitivity, R004 among the triggered rules.
C19_Witness ==
    /\ eng_call # None
    /\ eng_call.sensitivity = "medium"
    /\ eng_call.hook_count = 1
    /\ eng_call.proc = ProcessInfo(4120, "svchost.exe", <<"C:", "Temp", "svchost.exe">>, 2248,
                                   FALSE, TRUE, FALSE, <<"user32.dll", "suspicious.dll">>,
                                   <<"ELEVATED">>)
    /\ "elevated_privileges" \in Range(eng_result.assessment.triggered_rules)
    /\ eng_result.assessment.risk_score = 170

\* C20: every assessment analyze_process returns, at any sensitivity, has
\* level HIGH only with score >= 61, MEDIUM only with 31 <= score <= 60 and
\* LOW only with score <= 30, and never the level UNKNOWN; classify_risk maps
\* every score >= 0 the same way.
C20_LevelScoreConsistency ==
    /\ eng_result # None =>
           LET a == eng_result.assessment
           IN /\ a.risk_level \in {"HIGH", "MEDIUM", "LOW"}
              /\ a.risk_level = "HIGH" => a.risk_score >= 61
              /\ a.risk_level = "MEDIUM" => (31 <= a.risk_score /\ a.risk_score <= 60)
              /\ a.risk_level = "LOW" => a.risk_score <= 30
    /\ (classified # None /\ classified.score >= 0) =>
           /\ classified.level \in {"HIGH", "MEDIUM", "LOW"}
           /\ classified.level = "HIGH" => classified.score >= 61
           /\ classified.level = "MEDIUM" => (31 <= classified.score /\ classified.score <= 60)
           /\ classified.level = "LOW" => classified.score <= 30

\* An assessment on a boundary: score 60 (unsigned, hidden window, elevated)
\* at medium sensitivity, classified MEDIUM.
C20_Witness ==
    /\ eng_result # None
    /\ eng_call.sensitivity = "medium"
    /\ eng_result.assessment.risk_score = 60
    /\ eng_result.assessment.risk_level = "MEDIUM"

\* The sum, over the rule keys, of the base weight times tenths/10 truncated
\* to an integer.
RECURSIVE TruncatedSum(_, _)
TruncatedSum(keys, tenths) ==
    IF keys = <<>> THEN 0
    ELSE (BaseWeight(Head(keys)) * tenths) \div 10 + TruncatedSum(Tail(keys), tenths)

\* C21: the weights of an engine are the base weights times 0.7 / 1.0 / 1.3,
\* truncated to an integer, so that the score of a call is the sum of these
\* over the rules it triggered; and for the process fact and hook count of any
\* call the high-sensitivity engine scores at least what the medium one does,
\* which scores at least what the low one does.
C21_SensitivityMonotone ==
    eng_call # None =>
        LET Score(sensitivity) ==
                AnalyzeProcess(sensitivity, eng_call.proc, eng_call.hook_count)
                    .assessment.risk_score
            tenths == CASE eng_call.sensitivity = "high" -> 13
                        [] eng_call.sensitivity = "low" -> 7
                        [] OTHER -> 10
        IN /\ eng_result.assessment.risk_score = Score(eng_call.sensitivity)
           /\ eng_result.assessment.risk_score =
                  TruncatedSum(eng_result.assessment.triggered_rules, tenths)
           /\ Score("high") >= Score("medium")
           /\ Score("medium") >= Score("low")

\* Scenario 2 analysed by the high-sensitivity engine: 219, where the medium
\* engine scores 170 and the low one 117.
C21_Witness ==
    /\ eng_call # None
    /\ eng_call.sensitivity = "high"
    /\ eng_call.proc.name = "svchost.exe"
    /\ eng_result.assessment.risk_score = 219
    /\ AnalyzeProcess("medium", eng_call.proc, eng_call.hook_count).assessment.risk_score = 170
    /\ AnalyzeProcess("low", eng_call.proc, eng_call.hook_count).assessment.risk_score = 117

\* C22: two analyze_process calls on one engine with the same process fact
\* and hook count, one directly after the other or with other analyses in
\* between, return assessments equal in score, level, triggered rules (ids and
\* order), per-rule evidence and explanation, whatever the engine analysed
\* before them.
C22_EnginePurity ==
    \A i, j \in DOMAIN eng_log :
        (i < j /\ eng_log[i].proc = eng_log[j].proc
               /\ eng_log[i].hook_count = eng_log[j].hook_count)
            => /\ eng_log[j].returned = eng_log[i].returned
               /\ eng_log[j].explanation = eng_log[i].explanation

\* explorer.exe analysed first, then badproc.exe twice in a row: the two
\* assessments of badproc.exe are returned with the same non-empty content.
C22_Witness ==
    /\ Len(eng_log) = 3
    /\ eng_log[1].proc = Explorer
    /\ eng_log[2].proc = BadProc
    /\ eng_log[3].proc = BadProc
    /\ eng_log[2].hook_count = eng_log[3].hook_count
    /\ eng_log[3].returned.triggered_rules # <<>>
    /\ eng_log[3].returned = eng_log[2].returned

\* C23: an assessment is not mutated after it was returned: read at any later
\* time, whatever the engine analysed since, its triggered rules have the
\* triggered flag and the evidence they had when it was returned.
C23_AssessmentImmutable ==
    \A i \in DOMAIN eng_log :
        AssessmentContent(eng_log[i].assessment, rules) = eng_log[i].returned

\* C24: in the assessments the monitor pipeline produces, rule R010 (Multiple
\* Hooks) fires whenever the assessed process owns more than two of the hooks
\* the probe reported in that cycle.
C24_MultipleHooksFires ==
    \A i \in CycleEventIdx :
        (/\ events[i].risk_assessment # None
         /\ Cardinality({j \in DOMAIN last.current :
                last.current[j].owner_pid = events[i].process_info.pid}) > 2)
            => "multiple_hooks" \in Range(events[i].risk_assessment.triggered_rules)

-----------------------------------------------------------------------------
(* Properties of the process facts. *)

\* C25: every ProcessInfo a probe produces (the Windows probe and the mock
\* probe alike) with a non-empty path has a name equal to the basename of
\* that path.
C25_NameIsBasename ==
    (probe_fact # None /\ probe_fact.info # None /\ probe_fact.info.path # <<>>)
        => probe_fact.info.name = Basename(probe_fact.info.path)

-----------------------------------------------------------------------------
(* Properties of the administrative actions. *)

\* C26: terminate_process, suspend_process and quarantine_executable change
\* the target (kill, suspend, move of the executable) only if the caller has
\* administrator privileges and the user confirmed (for terminate: typed the
\* process name, then answered yes); in every other case they return False
\* and leave the process and the file as they were.
C26_AdminActionsGated ==
    admin_call # None =>
        LET yes == admin_call.answer \in {"yes", " yes ", "YES", "Y", "y", "true", "1"}
            named == admin_call.typed \in {"badproc.exe", " badproc.exe "}
            confirmed == yes /\ (admin_call.action = "terminate" => named)
        IN /\ ~(admin_call.is_admin /\ confirmed) =>
                  admin_call.returned = FALSE /\ target = admin_call.before
           /\ target # admin_call.before => admin_call.is_admin /\ confirmed

\* A terminate call by a non-administrator in which the user typed the name
\* and answered yes: False, process still running.
C26_Witness ==
    /\ admin_call # None
    /\ admin_call.action = "terminate"
    /\ ~admin_call.is_admin
    /\ admin_call.typed = "badproc.exe"
    /\ admin_call.answer = "yes"
    /\ admin_call.returned = FALSE
    /\ admin_call.before.process = "running"
    /\ target.process = "running"

-----------------------------------------------------------------------------
(* Properties of the event log over several cycles. *)

\* C27: in the event log every hook_removed event for a hook id is preceded
\* by a hook_added event for the same id, with no other hook_removed event
\* for that id in between.
C27_RemovedAfterAdded ==
    \A j \in DOMAIN events :
        events[j].event_type = "hook_removed" =>
            \E i \in 1..(j - 1) :
                /\ events[i].event_type = "hook_added"
                /\ events[i].hook_info.hook_id = events[j].hook_info.hook_id
                /\ \A k \in (i + 1)..(j - 1) :
                       ~(/\ events[k].event_type = "hook_removed"
                         /\ events[k].hook_info.hook_id = events[j].hook_info.hook_id)

-----------------------------------------------------------------------------
(* Properties of the monitor loops running side by side. *)

\* C28: at most one monitor loop executes at any time: two _perform_scan calls
\* never run at the same time on the monitor's state.
C28_OneLoopScanning ==
    Cardinality({l \in LoopIds : loops[l].pc = "scanning"}) <= 1

\* C29: once stop() has returned on a threaded monitor, and until start() is
\* called again, no loop of the monitor begins or carries on a scan.
C29_QuiescentAfterStop ==
    \A l \in LoopIds : ~loop_hist[l].ran_after_return

-----------------------------------------------------------------------------
(* Properties of the flags of a Detection.                                  *)

\* C30: in every emitted Detection each flag tells whether its indicator
\* fired: network_activity the network-exfiltration check, file_logging the
\* file-logging check, memory_suspicious the memory check, process_injection
\* the ancestry or the minimal-threads (DLL injection) check, whatever the
\* process name and path contain.
C30_FlagsReflectIndicators ==
    (core_call # None /\ core_result.detection # None) =>
        /\ core_result.detection.network_activity
               <=> "NETWORK EXFILTRATION" \in core_call.firing
        /\ core_result.detection.file_logging <=> "FILE LOGGING" \in core_call.firing
        /\ core_result.detection.memory_suspicious
               <=> "MEMORY PATTERN" \in core_call.firing
        /\ core_result.detection.process_injection
               <=> ("PROCESS ANCESTRY" \in core_call.firing
                        \/ "DLL INJECTION" \in core_call.firing)

=============================================================================
